---- MODULE Spec2Model ----
(***************************************************************************)
(* Model of the schema-driven decoding engine of solana-caller:            *)
(* src/src/utils/instructionDecoder.ts (instruction, account and event     *)
(* decoding), src/src/utils/idlNormalizer.ts (schema detection, rewrite    *)
(* and validation) and the address resolver.                               *)
(*                                                                         *)
(* Byte buffers are sequences of 0..255.  Text in a source encoding is a   *)
(* sequence of digit values: base58 text over 0..57 (58 stands for a       *)
(* character outside the alphabet), base64 text over 0..63 (64 is the      *)
(* padding '='), hex text over 0..15.  Raw schemas are JSON values.        *)
(***************************************************************************)
EXTENDS Integers, Sequences, FiniteSets, TLC

\* ---------------------------------------------------------------- bounds

\* Longest list of log lines handed to parseEventsFromLogs.
MaxLogLen == 5

\* ------------------------------------------------------ program constants

\* Length of an Anchor discriminator: dataBuffer.slice(0, 8).
DiscLen == 8
\* Shortest payload tryDecodeCpiEvent looks at.
MinCpiLen == 16
\* getIdlDiscriminators lists at most this many instructions.
MaxListed == 5

\* JavaScript's null / undefined, for fields that hold a string otherwise.
Null == "null"
\* An optional value: absent, or present.
None == <<>>
Some(v) == <<v>>

\* -------------------------------------------------------------- JSON values

\* A JSON value is a record with one field, named after its type.  An object
\* holds a record of the keys it has.
JNull == [null |-> TRUE]
JUndefined == [undefined |-> TRUE]
JBool(b) == [boolean |-> b]
JNum(n) == [number |-> n]
JStr(str) == [string |-> str]
JArr(items) == [array |-> items]
JObj(keys) == [object |-> keys]

JTrue == JBool(TRUE)
JFalse == JBool(FALSE)
\* The object without keys, {}.
JEmpty == JObj(<<>>)

\* typeof j === type, with "array" and "null" told apart from "object".
Is(j, type) == DOMAIN j = {type}

\* `key in obj`
In(key, obj) == key \in DOMAIN obj.object

\* obj[key]: undefined for a key the object does not have, and for every key
\* of a boolean, number or string.
Get(obj, key) ==
    IF Is(obj, "object") /\ key \in DOMAIN obj.object THEN obj.object[key]
    ELSE JUndefined

\* JavaScript truthiness.
Truthy(j) ==
    ~ \/ Is(j, "null") \/ Is(j, "undefined")
      \/ Is(j, "boolean") /\ ~j.boolean
      \/ Is(j, "number") /\ j.number = 0
      \/ Is(j, "string") /\ j.string = ""

\* Array.isArray
IsArray(j) == Is(j, "array")

\* ------------------------------------------------------- sequence helpers

RECURSIVE Repl(_, _)
Repl(x, n) == IF n <= 0 THEN <<>> ELSE <<x>> \o Repl(x, n - 1)

\* Buffer.slice(from, to) / subarray, 0-based, end exclusive, clamped.
Slice(b, from, to) ==
    LET lo == IF from > Len(b) THEN Len(b) ELSE from
        hi == IF to > Len(b) THEN Len(b) ELSE to
    IN  IF hi <= lo THEN <<>> ELSE SubSeq(b, lo + 1, hi)

\* Number of leading elements of s equal to x.
RECURSIVE LeadingCount(_, _)
LeadingCount(s, x) ==
    IF s = <<>> \/ Head(s) # x THEN 0 ELSE 1 + LeadingCount(Tail(s), x)

\* --------------------------------------------------------------- encodings

\* Buffer.toString('hex'): two hex digits per byte.
RECURSIVE ToHex(_)
ToHex(b) ==
    IF b = <<>> THEN <<>>
    ELSE <<(Head(b) % 256) \div 16, (Head(b) % 256) % 16>> \o ToHex(Tail(b))

\* One step of long division of a big-endian digit string in base `from`
\* by `to`: the quotient digits (leading zeros kept) and the remainder.
RECURSIVE DivDigits(_, _, _, _)
DivDigits(digits, from, to, carry) ==
    IF digits = <<>> THEN [q |-> <<>>, r |-> carry]
    ELSE LET acc  == carry * from + Head(digits)
             rest == DivDigits(Tail(digits), from, to, acc % to)
         IN  [q |-> <<acc \div to>> \o rest.q, r |-> rest.r]

\* A digit string without its leading zeros.
StripZeros(digits) ==
    Slice(digits, LeadingCount(digits, 0), Len(digits))

\* The digits in base `to` of the number written by `digits` in base `from`.
RECURSIVE ConvertBase(_, _, _)
ConvertBase(digits, from, to) ==
    LET d == StripZeros(digits)
    IN  IF d = <<>> THEN <<>>
        ELSE LET s == DivDigits(d, from, to, 0)
             IN  ConvertBase(s.q, from, to) \o <<s.r>>

\* bs58.encode: each leading zero byte gives a '1' (digit 0).
Bs58Encode(bytes) ==
    Repl(0, LeadingCount(bytes, 0)) \o ConvertBase(bytes, 256, 58)

\* bs58.decode raises on a character outside the alphabet.
Bs58Valid(text) == \A i \in 1..Len(text) : text[i] \in 0..57

\* bs58.decode of a valid text.
Bs58Decode(text) ==
    Repl(0, LeadingCount(text, 0)) \o ConvertBase(text, 58, 256)

\* Buffer.toString('base64'): three bytes to four characters, '=' padded.
RECURSIVE Base64Encode(_)
Base64Encode(b) ==
    IF b = <<>> THEN <<>>
    ELSE IF Len(b) = 1
         THEN <<b[1] \div 4, (b[1] % 4) * 16, 64, 64>>
    ELSE IF Len(b) = 2
         THEN <<b[1] \div 4, (b[1] % 4) * 16 + b[2] \div 16, (b[2] % 16) * 4, 64>>
    ELSE <<b[1] \div 4, (b[1] % 4) * 16 + b[2] \div 16,
           (b[2] % 16) * 4 + b[3] \div 64, b[3] % 64>>
         \o Base64Encode(Slice(b, 3, Len(b)))

\* Buffer.from(text, 'base64'): decoding stops at the padding; a trailing
\* group of two or three characters gives one or two bytes.
RECURSIVE Base64Chars(_)
Base64Chars(c) ==
    IF Len(c) < 2 THEN <<>>
    ELSE IF Len(c) = 2
         THEN <<c[1] * 4 + c[2] \div 16>>
    ELSE IF Len(c) = 3
         THEN <<c[1] * 4 + c[2] \div 16, (c[2] % 16) * 16 + c[3] \div 4>>
    ELSE <<c[1] * 4 + c[2] \div 16, (c[2] % 16) * 16 + c[3] \div 4,
           (c[3] % 4) * 64 + c[4]>>
         \o Base64Chars(Slice(c, 4, Len(c)))

RECURSIVE UpToPadding(_)
UpToPadding(text) ==
    IF text = <<>> \/ Head(text) = 64 THEN <<>>
    ELSE <<Head(text)>> \o UpToPadding(Tail(text))

Base64Decode(text) == Base64Chars(UpToPadding(text))

\* ------------------------------------------------------------------ schemas

\* An 8-byte discriminator, one per k.
Disc(k) == [i \in 1..DiscLen |-> (37 * k + 11 * i) % 256]

\* The instruction discriminator Anchor's emit_cpi! puts in front of an event.
EventIxTag == <<228, 69, 165, 46, 81, 203, 154, 29>>

\* The role list of `initialize`: a signer, a nested account group, an
\* entry with an explicit false, an entry whose signer is the number 1, and an
\* entry without a name.
InitializeAccounts ==
    << JObj([name |-> JStr("payer"), signer |-> JTrue, writable |-> JTrue]),
       JObj([name |-> JStr("pools"),
             accounts |->
               JArr(<< JObj([name |-> JStr("poolA"), writable |-> JTrue]),
                       JObj([name |-> JStr("poolB"), signer |-> JTrue]) >>)]),
       JObj([name |-> JStr("state"), writable |-> JTrue, signer |-> JFalse]),
       JObj([name |-> JStr("odd"), signer |-> JNum(1)]),
       JObj([writable |-> JTrue]) >>

\* Schema "alpha": every definition carries a discriminator.
IdlAlpha ==
    [ name |-> "alpha",
      instructions |->
        << [name |-> "initialize", discriminator |-> Some(Disc(1)),
            args |-> <<"u8", "u16">>, accounts |-> Some(InitializeAccounts)],
           [name |-> "swap", discriminator |-> Some(Disc(2)),
            args |-> <<"bool">>,
            accounts |-> Some(<<JObj([name |-> JStr("user"), signer |-> JTrue])>>)] >>,
      events |->
        Some(<< [name |-> "X", discriminator |-> Some(Disc(3)),
                 fields |-> <<"u8", "bool">>],
                [name |-> "Y", discriminator |-> Some(Disc(4)),
                 fields |-> <<>>] >>) ]

\* Schema "beta": an older file, its first definitions carry no discriminator.
IdlBeta ==
    [ name |-> "beta",
      instructions |->
        << [name |-> "legacyIx", discriminator |-> None, args |-> <<>>,
            accounts |-> None],
           [name |-> "initialize", discriminator |-> Some(Disc(1)),
            args |-> <<"bool">>,
            accounts |->
              Some(<<JObj([name |-> JStr("authority"), writable |-> JTrue])>>)] >>,
      events |->
        Some(<< [name |-> "Old", discriminator |-> None, fields |-> <<>>],
                [name |-> "X", discriminator |-> Some(Disc(3)),
                 fields |-> <<"u8">>] >>) ]

\* Schema "gamma": declares no event.
IdlGamma ==
    [ name |-> "gamma",
      instructions |->
        << [name |-> "swap", discriminator |-> Some(Disc(2)), args |-> <<>>,
            accounts |-> Some(<<>>)] >>,
      events |-> Some(<<>>) ]

\* Schema "delta": has no `events` key at all.
IdlDelta ==
    [ name |-> "delta",
      instructions |->
        << [name |-> "initialize", discriminator |-> Some(Disc(1)),
            args |-> <<"u8">>, accounts |-> None] >>,
      events |-> None ]

\* Schema "epsilon": custom discriminators of one byte.
IdlEpsilon ==
    [ name |-> "epsilon",
      instructions |->
        << [name |-> "ping", discriminator |-> Some(<<9>>), args |-> <<>>,
            accounts |-> Some(<<JObj([name |-> JStr("who")])>>)] >>,
      events |->
        Some(<< [name |-> "Tiny", discriminator |-> Some(<<7>>),
                 fields |-> <<>>] >>) ]

\* An instruction definition without arguments and with one account.
IxDef(name, discriminator) ==
    [name |-> name, discriminator |-> discriminator, args |-> <<>>,
     accounts |-> Some(<<JObj([name |-> JStr("target"), writable |-> JTrue])>>)]

\* Schema "zeta": seven instructions, each with a discriminator.
IdlZeta ==
    [ name |-> "zeta",
      instructions |->
        << IxDef("z1", Some(Disc(11))), IxDef("z2", Some(Disc(12))),
           IxDef("z3", Some(Disc(13))), IxDef("z4", Some(Disc(14))),
           IxDef("z5", Some(Disc(15))), IxDef("z6", Some(Disc(16))),
           IxDef("z7", Some(Disc(17))) >>,
      events |-> None ]

\* Schema "eta": seven instructions, the third without a discriminator.
IdlEta ==
    [ name |-> "eta",
      instructions |->
        << IxDef("e1", Some(Disc(21))), IxDef("e2", Some(Disc(22))),
           IxDef("e3", None), IxDef("e4", Some(Disc(24))),
           IxDef("e5", Some(Disc(25))), IxDef("e6", Some(Disc(26))),
           IxDef("e7", Some(Disc(27))) >>,
      events |-> None ]

\* Schema "theta": account types; the discriminator of P is a prefix of the
\* discriminator of Q.
IdlTheta ==
    [ name |-> "theta",
      instructions |-> <<>>,
      events |-> None,
      accounts |->
        << [name |-> "P", discriminator |-> <<1>>, fields |-> Some(<<"u8">>)],
           [name |-> "Q", discriminator |-> <<1, 2>>, fields |-> Some(<<>>)],
           [name |-> "R", discriminator |-> <<3>>, fields |-> Some(<<"bool">>)] >> ]

\* Schema "kappa": an account type whose type definition is missing.
IdlKappa ==
    [ name |-> "kappa",
      instructions |-> << IxDef("k1", Some(Disc(31))) >>,
      events |-> None,
      accounts |->
        << [name |-> "S", discriminator |-> <<5>>, fields |-> None] >> ]

\* IdlConfig values (src/src/types/index.ts).  "Aaa" is bound twice when
\* both cfgAlpha and cfgBeta are registered.
CfgAlpha == [id |-> "1", name |-> "alpha", idl |-> IdlAlpha,
             programIds |-> <<"Aaa">>]
CfgBeta  == [id |-> "2", name |-> "beta", idl |-> IdlBeta,
             programIds |-> <<"Ccc", "Aaa">>]
CfgGamma == [id |-> "3", name |-> "gamma", idl |-> IdlGamma,
             programIds |-> <<"Ddd">>]
CfgDelta == [id |-> "4", name |-> "delta", idl |-> IdlDelta,
             programIds |-> <<"Eee">>]
CfgEpsilon == [id |-> "5", name |-> "epsilon", idl |-> IdlEpsilon,
               programIds |-> <<"Fff">>]

CfgZeta == [id |-> "6", name |-> "zeta", idl |-> IdlZeta,
            programIds |-> <<"Ggg">>]
CfgEta == [id |-> "7", name |-> "eta", idl |-> IdlEta,
           programIds |-> <<"Hhh">>]

CfgTheta == [id |-> "8", name |-> "theta", idl |-> IdlTheta,
             programIds |-> <<"Iii">>]
CfgKappa == [id |-> "9", name |-> "kappa", idl |-> IdlKappa,
             programIds |-> <<"Jjj">>]

\* A config saved without display name, bound to the System Program address.
CfgLambda == [id |-> "10", name |-> "", idl |-> IdlDelta,
              programIds |-> <<"11111111111111111111111111111111">>]

\* Array.prototype.includes.
Includes(arr, x) == \E i \in 1..Len(arr) : arr[i] = x

\* The least index of a non-empty set of indices.
First(hits) == CHOOSE i \in hits : \A j \in hits : i <= j

\* Faulty variant: the address is not looked at, the first config is taken.
findIdlByProgramId_FirstConfig(programId, idlConfigs) ==
    IF idlConfigs = <<>> THEN None ELSE Some(idlConfigs[1])

\* Faulty variant: the last config whose programIds include programId.
findIdlByProgramId_Last(programId, idlConfigs) ==
    LET hits == {i \in 1..Len(idlConfigs) :
                    Includes(idlConfigs[i].programIds, programId)}
    IN  IF hits = {} THEN None
        ELSE Some(idlConfigs[CHOOSE i \in hits : \A j \in hits : j <= i])

\* findIdlByProgramId: Array.prototype.find, the first config whose
\* programIds include programId, as an option.
findIdlByProgramId(programId, idlConfigs) ==
    LET hits == {i \in 1..Len(idlConfigs) :
                    Includes(idlConfigs[i].programIds, programId)}
    IN  IF hits = {} THEN None ELSE Some(idlConfigs[First(hits)])

\* The loop of findInstructionNameByDiscriminator and of
\* findEventNameByDiscriminator: the name of the first definition that has a
\* discriminator whose hex text equals discriminatorHex, or Null.
FindNameByDiscriminator(discriminatorHex, defs) ==
    LET hits == {i \in 1..Len(defs) :
                    /\ defs[i].discriminator # None
                    /\ ToHex(defs[i].discriminator[1]) = discriminatorHex}
    IN  IF hits = {} THEN Null ELSE defs[First(hits)].name

findInstructionNameByDiscriminator(discriminatorHex, idl) ==
    FindNameByDiscriminator(discriminatorHex, idl.instructions)

\* Faulty variant: the discriminator is not compared, the first event is taken.
findEventNameByDiscriminator_AnyFirst(discriminatorHex, idl) ==
    IF idl.events = None \/ idl.events[1] = <<>> THEN Null
    ELSE idl.events[1][1].name

findEventNameByDiscriminator(discriminatorHex, idl) ==
    IF idl.events = None THEN Null
    ELSE FindNameByDiscriminator(discriminatorHex, idl.events[1])

\* ------------------------------------------------- BorshCoder (the library)

\* Bytes one field of the given type takes.
FieldSize(t) == IF t = "u16" THEN 2 ELSE 1

\* Decode of a struct layout: field by field, little-endian; a read past the
\* end of the buffer or a boolean byte other than 0 and 1 raises.
RECURSIVE LayoutDecode(_, _)
LayoutDecode(fields, bytes) ==
    IF fields = <<>> THEN [ok |-> TRUE, data |-> <<>>]
    ELSE LET t == Head(fields)
         IN  IF Len(bytes) < FieldSize(t) \/ (t = "bool" /\ bytes[1] > 1)
             THEN [ok |-> FALSE, data |-> <<>>]
             ELSE LET v    == IF t = "u16" THEN bytes[1] + 256 * bytes[2]
                              ELSE bytes[1]
                      rest == LayoutDecode(Tail(fields),
                                           Slice(bytes, FieldSize(t), Len(bytes)))
                  IN  [ok |-> rest.ok,
                       data |-> IF rest.ok THEN <<v>> \o rest.data ELSE <<>>]

\* What a decode call of the coder gives: a decoded value, null, or a raise.
Decoded(name, data) == [kind |-> "ok", name |-> name, data |-> data]
ReturnsNull == [kind |-> "null", name |-> Null, data |-> <<>>]
Raises == [kind |-> "throw", name |-> Null, data |-> <<>>]

\* The coder walks its layouts in declaration order and decodes with the
\* first whose discriminator is a prefix of the buffer; a definition without
\* a discriminator makes the walk raise, no match gives null.
RECURSIVE CoderDecode(_, _)
CoderDecode(layouts, bytes) ==
    IF layouts = <<>> THEN ReturnsNull
    ELSE LET d == Head(layouts)
         IN  IF d.discriminator = None THEN Raises
             ELSE LET disc == d.discriminator[1]
                  IN  IF Slice(bytes, 0, Len(disc)) = disc
                      THEN LET r == LayoutDecode(d.fields,
                                                 Slice(bytes, Len(disc), Len(bytes)))
                           IN  IF r.ok THEN Decoded(d.name, r.data) ELSE Raises
                      ELSE CoderDecode(Tail(layouts), bytes)

\* new BorshCoder(idl) raises when an account type of the schema has no type
\* definition to build its layout from.
CoderBuilds(idl) ==
    "accounts" \notin DOMAIN idl
        \/ \A k \in 1..Len(idl.accounts) : idl.accounts[k].fields # None

\* new BorshCoder(idl).instruction.decode(dataBuffer)
CoderInstructionDecode(idl, dataBuffer) ==
    IF ~CoderBuilds(idl) THEN Raises ELSE
    CoderDecode([i \in 1..Len(idl.instructions) |->
                    [name |-> idl.instructions[i].name,
                     discriminator |-> idl.instructions[i].discriminator,
                     fields |-> idl.instructions[i].args]],
                dataBuffer)

\* new BorshCoder(idl).events.decode(base64Data)
CoderEventsDecode(idl, base64Data) ==
    IF ~CoderBuilds(idl) THEN Raises
    ELSE IF idl.events = None THEN ReturnsNull
    ELSE CoderDecode(idl.events[1], Base64Decode(base64Data))

\* The text of an Error the library raises, as far as the code reads it: the
\* set of the phrases, among those the code looks for, that it contains.
Phrases == {"discriminator", "Unexpected end of buffer", "out of range"}
ErrorMsgs == SUBSET Phrases

\* A diagnostic string, kept as its parts: which message it is and the values
\* interpolated into it.
Diagnostic(text, name, discriminatorHex, idlName, idlInfo, errorMsg) ==
    [text |-> text, name |-> name, discriminatorHex |-> discriminatorHex,
     idlName |-> idlName, idlInfo |-> idlInfo, errorMsg |-> errorMsg]

\* --------------------------------------------------- decodeInstructionData

\* The DecodeResult of decodeInstructionData.
DecodeResult(name, data, rawData, hasIdl, decodeError) ==
    [name |-> name, data |-> data, rawData |-> rawData, hasIdl |-> hasIdl,
     decodeError |-> decodeError]

\* Array.prototype.slice(0, n).
FirstN(arr, n) == SubSeq(arr, 1, IF Len(arr) < n THEN Len(arr) ELSE n)

\* getIdlDiscriminators: the list appended to a mismatch diagnostic, "name:
\* 0xhex" for the first MaxListed definitions that carry a discriminator, and
\* the instruction count when the schema has more than MaxListed instructions
\* (0 stands for no such remark).  The empty list stands for ''.
getIdlDiscriminators(idl) ==
    LET HasDisc(ix) == ix.discriminator # None
        withDisc == SelectSeq(idl.instructions, HasDisc)
        listed   == FirstN(withDisc, MaxListed)
        discriminators ==
            [i \in 1..Len(listed) |->
                [name |-> listed[i].name, hex |-> ToHex(listed[i].discriminator[1])]]
    IN  IF discriminators = <<>> THEN [known |-> <<>>, total |-> 0]
        ELSE [known |-> discriminators,
              total |-> IF Len(idl.instructions) > MaxListed
                        THEN Len(idl.instructions) ELSE 0]

NoIdlInfo == [known |-> <<>>, total |-> 0]

\* The diagnostic of the catch block, chosen by the phrases of errorMsg.
FriendlyError(errorMsg, matchedName, discriminatorHex, idlConfig, idl) ==
    IF "discriminator" \in errorMsg
    THEN IF matchedName # Null
         THEN Diagnostic("discriminator matched, argument decode failed",
                         matchedName, discriminatorHex, Null, NoIdlInfo, errorMsg)
         ELSE Diagnostic("discriminator mismatch", Null, discriminatorHex,
                         idlConfig.name, getIdlDiscriminators(idl), {})
    ELSE IF "Unexpected end of buffer" \in errorMsg
    THEN Diagnostic("data too short", matchedName, discriminatorHex,
                    Null, NoIdlInfo, {})
    ELSE IF "out of range" \in errorMsg
    THEN Diagnostic("data out of range", matchedName, <<>>, Null, NoIdlInfo, {})
    ELSE IF matchedName # Null
    THEN Diagnostic("discriminator matched, decode failed", matchedName, <<>>,
                    Null, NoIdlInfo, errorMsg)
    ELSE Diagnostic("decode error", Null, <<>>, Null, NoIdlInfo, errorMsg)

\* Faulty variant: an unmatched discriminator is reported without diagnostic.
DecodeWithIdl_SilentMismatch(idlConfig, dataBuffer, data, errorMsg) ==
    LET idl == idlConfig.idl
        discriminatorHex == ToHex(Slice(dataBuffer, 0, DiscLen))
        decoded == CoderInstructionDecode(idl, dataBuffer)
        matchedName == findInstructionNameByDiscriminator(discriminatorHex, idl)
    IN  IF decoded.kind = "ok"
        THEN DecodeResult(decoded.name, Some(decoded.data), data, TRUE, None)
        ELSE IF decoded.kind = "null"
        THEN IF matchedName # Null
             THEN DecodeResult(matchedName, None, data, TRUE,
                    Some(Diagnostic("discriminator matched, argument decode failed",
                                    matchedName, discriminatorHex, Null,
                                    NoIdlInfo, {})))
             ELSE DecodeResult(Null, None, data, TRUE, None)
        ELSE DecodeResult(matchedName, None, data, TRUE,
               Some(FriendlyError(errorMsg, matchedName, discriminatorHex,
                                  idlConfig, idl)))

\* The part of decodeInstructionData behind the schema lookup: the decode
\* against idlConfig.  errorMsg is the text of the Error the coder raises, if
\* it raises.
DecodeWithIdl(idlConfig, dataBuffer, data, errorMsg) ==
    LET idl == idlConfig.idl
        discriminatorHex == ToHex(Slice(dataBuffer, 0, DiscLen))
        decoded == CoderInstructionDecode(idl, dataBuffer)
        matchedName == findInstructionNameByDiscriminator(discriminatorHex, idl)
    IN  IF decoded.kind = "ok"
        THEN DecodeResult(decoded.name, Some(decoded.data), data, TRUE, None)
        ELSE IF decoded.kind = "null"
        THEN IF matchedName # Null
             THEN DecodeResult(matchedName, None, data, TRUE,
                    Some(Diagnostic("discriminator matched, argument decode failed",
                                    matchedName, discriminatorHex, Null,
                                    NoIdlInfo, {})))
             ELSE DecodeResult(Null, None, data, TRUE,
                    Some(Diagnostic("discriminator mismatch", Null,
                                    discriminatorHex, idlConfig.name,
                                    getIdlDiscriminators(idl), {})))
        ELSE DecodeResult(matchedName, None, data, TRUE,
               Some(FriendlyError(errorMsg, matchedName, discriminatorHex,
                                  idlConfig, idl)))

\* The result for a text bs58.decode rejects.
Base58Failure(data, hasIdl) ==
    DecodeResult(Null, None, data, hasIdl,
                 Some(Diagnostic("Base58 decode failed", Null, <<>>, Null,
                                 NoIdlInfo, {})))

\* Faulty variant: the schema is resolved before the encoding is looked at.
decodeInstructionData_ResolveFirst(programId, data, configs, errorMsg) ==
    LET found == findIdlByProgramId(programId, configs)
    IN  IF found = None THEN DecodeResult(Null, None, data, FALSE, None)
        ELSE IF ~Bs58Valid(data) THEN Base58Failure(data, TRUE)
        ELSE DecodeWithIdl(found[1], Bs58Decode(data), data, errorMsg)

\* decodeInstructionData(programId, data, idlConfigs).
decodeInstructionData(programId, data, configs, errorMsg) ==
    IF ~Bs58Valid(data) THEN Base58Failure(data, FALSE)
    ELSE LET found == findIdlByProgramId(programId, configs)
         IN  IF found = None THEN DecodeResult(Null, None, data, FALSE, None)
             ELSE DecodeWithIdl(found[1], Bs58Decode(data), data, errorMsg)

\* ------------------------------------------------------- tryDecodeCpiEvent

\* Faulty variant: only the instruction discriminator is required.
CpiTooShort_DiscOnly(dataBuffer) == Len(dataBuffer) < DiscLen

\* The test `dataBuffer.length < 16`.
CpiTooShort(dataBuffer) == Len(dataBuffer) < MinCpiLen

\* dataBuffer.subarray(8): the event data behind the instruction discriminator.
EventRegion(dataBuffer) == Slice(dataBuffer, DiscLen, Len(dataBuffer))

\* Faulty variant: the coder is given the whole payload, instruction discriminator
\* included.
CpiCoderInput_Whole(dataBuffer, eventDataBuffer) == Base64Encode(dataBuffer)

\* eventDataBuffer.toString('base64'): the text handed to events.decode.
CpiCoderInput(dataBuffer, eventDataBuffer) == Base64Encode(eventDataBuffer)

\* tryDecodeCpiEvent(programId, dataBase58, idlConfigs): None for "not an
\* event", else the result.
tryDecodeCpiEvent(programId, dataBase58, configs) ==
    IF ~Bs58Valid(dataBase58) THEN None
    ELSE
    LET dataBuffer == Bs58Decode(dataBase58)
        found      == findIdlByProgramId(programId, configs)
    IN  IF CpiTooShort(dataBuffer) THEN None
        ELSE IF found = None THEN None
        ELSE IF found[1].idl.events = None \/ Len(found[1].idl.events[1]) = 0
        THEN None
        ELSE
        LET idl == found[1].idl
            eventDataBuffer == EventRegion(dataBuffer)
            eventDiscriminatorHex == ToHex(Slice(eventDataBuffer, 0, DiscLen))
            eventName == findEventNameByDiscriminator(eventDiscriminatorHex, idl)
            decoded == CoderEventsDecode(idl, CpiCoderInput(dataBuffer, eventDataBuffer))
        IN  IF eventName = Null THEN None
            ELSE IF decoded.kind = "ok"
            THEN Some([name |-> decoded.name, data |-> Some(decoded.data),
                       decodeError |-> None])
            ELSE Some([name |-> eventName, data |-> None,
                       decodeError |->
                         Some(Diagnostic("event discriminator matched, argument decode failed",
                                         eventName, eventDiscriminatorHex, Null,
                                         <<>>, {}))])

\* ------------------------------------------------------- decodeAccountData

\* coder.accounts.decode(accountDef.name, dataBuffer): raises unless the
\* buffer starts with the type's discriminator, then decodes the rest.
CoderAccountsDecode(accountDef, dataBuffer) ==
    LET disc == accountDef.discriminator
    IN  IF Slice(dataBuffer, 0, Len(disc)) # disc THEN Raises
        ELSE LET r == LayoutDecode(accountDef.fields[1],
                                   Slice(dataBuffer, Len(disc), Len(dataBuffer)))
             IN  IF r.ok THEN Decoded(accountDef.name, r.data) ELSE Raises

\* The return value of decodeAccountData.
AccountResult(accountType, data) == [accountType |-> accountType, data |-> data]

\* Faulty variant: the last account type that decodes is returned.
FirstDecoding_Last(idl, dataBuffer) ==
    LET ok == {k \in 1..Len(idl.accounts) :
                 CoderAccountsDecode(idl.accounts[k], dataBuffer).kind = "ok"}
    IN  IF ok = {} THEN None
        ELSE Some(idl.accounts[CHOOSE k \in ok : \A j \in ok : j <= k])

\* The loop over idl.accounts: the first account type whose decode returns.
FirstDecoding(idl, dataBuffer) ==
    LET ok == {k \in 1..Len(idl.accounts) :
                 CoderAccountsDecode(idl.accounts[k], dataBuffer).kind = "ok"}
    IN  IF ok = {} THEN None ELSE Some(idl.accounts[First(ok)])

\* decodeAccountData(owner, data, idlConfigs).
decodeAccountData(owner, data, configs) ==
    LET idlConfig == findIdlByProgramId(owner, configs)
    IN  IF idlConfig = None THEN AccountResult(Null, None)
        ELSE LET idl == idlConfig[1].idl
             IN  IF ~CoderBuilds(idl) \/ "accounts" \notin DOMAIN idl
                 THEN AccountResult(Null, None)
                 ELSE LET hit == FirstDecoding(idl, data)
                      IN  IF hit = None THEN AccountResult(Null, None)
                          ELSE AccountResult(
                                 hit[1].name,
                                 Some(CoderAccountsDecode(hit[1], data).data))

\* ------------------------------------------------------- address resolver

\* The entries of KNOWN_PROGRAMS the model's addresses can hit.
KNOWN_PROGRAMS ==
    [addr \in {"11111111111111111111111111111111"} |-> "System Program"]

\* getKnownProgramName: KNOWN_PROGRAMS[programId], undefined when absent.
getKnownProgramName(programId) ==
    IF programId \in DOMAIN KNOWN_PROGRAMS THEN KNOWN_PROGRAMS[programId]
    ELSE Null

\* getAddressLabel: the user's label first, then the name of the first config
\* that lists the address, else undefined.
getAddressLabel(address, labels, configs) ==
    LET hits == {i \in 1..Len(labels) : labels[i].address = address}
        found == findIdlByProgramId(address, configs)
    IN  IF hits # {} THEN labels[First(hits)].label
        ELSE IF found # None THEN found[1].name
        ELSE Null

\* formatAddress(address, labels, false, idlConfigs): a non-empty label, else
\* the address itself (truncate is false in every call of the decoder).
formatAddress(address, labels, configs) ==
    LET label == getAddressLabel(address, labels, configs)
    IN  IF label # Null /\ label # "" THEN label ELSE address

\* ---------------------------------------------------------- parseInstruction

\* accountKeys[index] || `Unknown (${index})`, index counted from 0.
KeyAt(accountKeys, index) ==
    IF index + 1 \in 1..Len(accountKeys) /\ accountKeys[index + 1] # ""
    THEN accountKeys[index + 1]
    ELSE "Unknown (" \o ToString(index) \o ")"

\* A DecodedAccount: the role is absent, or name / isSigner / isWritable.
DecodedAccount(pubkey, label, role) ==
    [pubkey |-> pubkey, label |-> IF label # pubkey THEN label ELSE Null,
     role |-> role]

\* The accountMeta built from the entry accDef of a role list.
AccountMeta(accDef) ==
    [name |-> IF Is(Get(accDef, "name"), "string")
              THEN Get(accDef, "name").string ELSE Null,
     isSigner |-> Get(accDef, "signer") = JTrue,
     isWritable |-> Get(accDef, "writable") = JTrue]

\* idl.instructions.find(ix => ix.name === name), as an option.
FindInstruction(idl, name) ==
    LET hits == {k \in 1..Len(idl.instructions) : idl.instructions[k].name = name}
    IN  IF hits = {} THEN None ELSE Some(idl.instructions[First(hits)])

\* Faulty variant: the role is looked up by the account's index in the
\* transaction's account table instead of its position in the instruction.
RoleAt_ByIndex(idlConfig, decodedName, i, index) ==
    IF idlConfig = None \/ decodedName = Null THEN None
    ELSE LET ixDef == FindInstruction(idlConfig[1].idl, decodedName)
         IN  IF ixDef # None /\ ixDef[1].accounts # None
                /\ index < Len(ixDef[1].accounts[1])
             THEN Some(AccountMeta(ixDef[1].accounts[1][index + 1]))
             ELSE None

\* The accountMeta of the account at position i (from 0) whose index in the
\* account table is `index`.
RoleAt(idlConfig, decodedName, i, index) ==
    IF idlConfig = None \/ decodedName = Null THEN None
    ELSE LET ixDef == FindInstruction(idlConfig[1].idl, decodedName)
         IN  IF ixDef # None /\ ixDef[1].accounts # None
                /\ i < Len(ixDef[1].accounts[1])
             THEN Some(AccountMeta(ixDef[1].accounts[1][i + 1]))
             ELSE None

\* A DecodedInstruction; isEvent is set on the event path only.
DecodedInstruction(programId, name, data, accounts, rawData, decodeError, hasIdl, isEvent) ==
    [programId |-> programId, name |-> name, data |-> data,
     accounts |-> accounts, rawData |-> rawData, decodeError |-> decodeError,
     hasIdl |-> hasIdl, isEvent |-> isEvent]

\* Faulty variant: the CPI probe is consulted whatever tryParseAsEvent is.
parseInstruction_ProbeAlways(programId, data, accountKeys, accountIndexes, configs, addressLabels, tryParseAsEvent, errorMsg) ==
    LET eventResult == tryDecodeCpiEvent(programId, data, configs)
    IN  IF eventResult # None
        THEN DecodedInstruction(
               programId, eventResult[1].name, eventResult[1].data,
               [i \in 1..Len(accountIndexes) |->
                  LET pubkey == KeyAt(accountKeys, accountIndexes[i])
                  IN  DecodedAccount(pubkey,
                                     formatAddress(pubkey, addressLabels, configs),
                                     None)],
               data, eventResult[1].decodeError, TRUE, TRUE)
        ELSE
        LET decoded   == decodeInstructionData(programId, data, configs, errorMsg)
            idlConfig == findIdlByProgramId(programId, configs)
            knownName == getKnownProgramName(programId)
            programLabel == IF idlConfig # None /\ idlConfig[1].name # ""
                            THEN idlConfig[1].name ELSE knownName
        IN  DecodedInstruction(
              programId,
              IF decoded.name # Null THEN decoded.name
              ELSE IF decoded.hasIdl THEN Null ELSE programLabel,
              decoded.data,
              [i \in 1..Len(accountIndexes) |->
                 LET pubkey == KeyAt(accountKeys, accountIndexes[i])
                 IN  DecodedAccount(pubkey,
                                    formatAddress(pubkey, addressLabels, configs),
                                    RoleAt(idlConfig, decoded.name, i - 1,
                                           accountIndexes[i]))],
              decoded.rawData, decoded.decodeError, decoded.hasIdl, FALSE)

\* Faulty variant: roles are attached only when the arguments decoded.
parseInstruction_RolesOnFullDecode(programId, data, accountKeys, accountIndexes, configs, addressLabels, tryParseAsEvent, errorMsg) ==
    LET eventResult == IF tryParseAsEvent
                       THEN tryDecodeCpiEvent(programId, data, configs)
                       ELSE None
    IN  IF eventResult # None
        THEN DecodedInstruction(
               programId, eventResult[1].name, eventResult[1].data,
               [i \in 1..Len(accountIndexes) |->
                  LET pubkey == KeyAt(accountKeys, accountIndexes[i])
                  IN  DecodedAccount(pubkey,
                                     formatAddress(pubkey, addressLabels, configs),
                                     None)],
               data, eventResult[1].decodeError, TRUE, TRUE)
        ELSE
        LET decoded   == decodeInstructionData(programId, data, configs, errorMsg)
            idlConfig == findIdlByProgramId(programId, configs)
            knownName == getKnownProgramName(programId)
            programLabel == IF idlConfig # None /\ idlConfig[1].name # ""
                            THEN idlConfig[1].name ELSE knownName
        IN  DecodedInstruction(
              programId,
              IF decoded.name # Null THEN decoded.name
              ELSE IF decoded.hasIdl THEN Null ELSE programLabel,
              decoded.data,
              [i \in 1..Len(accountIndexes) |->
                 LET pubkey == KeyAt(accountKeys, accountIndexes[i])
                 IN  DecodedAccount(pubkey,
                                    formatAddress(pubkey, addressLabels, configs),
                                    RoleAt(idlConfig,
                                           IF decoded.data # None
                                           THEN decoded.name ELSE Null, i - 1,
                                           accountIndexes[i]))],
              decoded.rawData, decoded.decodeError, decoded.hasIdl, FALSE)

\* Faulty variant: the program label stands in for every missing name.
parseInstruction_LabelWhenUnnamed(programId, data, accountKeys, accountIndexes, configs, addressLabels, tryParseAsEvent, errorMsg) ==
    LET eventResult == IF tryParseAsEvent
                       THEN tryDecodeCpiEvent(programId, data, configs)
                       ELSE None
    IN  IF eventResult # None
        THEN DecodedInstruction(
               programId, eventResult[1].name, eventResult[1].data,
               [i \in 1..Len(accountIndexes) |->
                  LET pubkey == KeyAt(accountKeys, accountIndexes[i])
                  IN  DecodedAccount(pubkey,
                                     formatAddress(pubkey, addressLabels, configs),
                                     None)],
               data, eventResult[1].decodeError, TRUE, TRUE)
        ELSE
        LET decoded   == decodeInstructionData(programId, data, configs, errorMsg)
            idlConfig == findIdlByProgramId(programId, configs)
            knownName == getKnownProgramName(programId)
            programLabel == IF idlConfig # None /\ idlConfig[1].name # ""
                            THEN idlConfig[1].name ELSE knownName
        IN  DecodedInstruction(
              programId,
              IF decoded.name # Null THEN decoded.name
              ELSE programLabel,
              decoded.data,
              [i \in 1..Len(accountIndexes) |->
                 LET pubkey == KeyAt(accountKeys, accountIndexes[i])
                 IN  DecodedAccount(pubkey,
                                    formatAddress(pubkey, addressLabels, configs),
                                    RoleAt(idlConfig, decoded.name, i - 1,
                                           accountIndexes[i]))],
              decoded.rawData, decoded.decodeError, decoded.hasIdl, FALSE)

\* parseInstruction(programId, data, accountKeys, accountIndexes, idlConfigs,
\* addressLabels, tryParseAsEvent).
parseInstruction(programId, data, accountKeys, accountIndexes, configs, addressLabels, tryParseAsEvent, errorMsg) ==
    LET eventResult == IF tryParseAsEvent
                       THEN tryDecodeCpiEvent(programId, data, configs)
                       ELSE None
    IN  IF eventResult # None
        THEN DecodedInstruction(
               programId, eventResult[1].name, eventResult[1].data,
               [i \in 1..Len(accountIndexes) |->
                  LET pubkey == KeyAt(accountKeys, accountIndexes[i])
                  IN  DecodedAccount(pubkey,
                                     formatAddress(pubkey, addressLabels, configs),
                                     None)],
               data, eventResult[1].decodeError, TRUE, TRUE)
        ELSE
        LET decoded   == decodeInstructionData(programId, data, configs, errorMsg)
            idlConfig == findIdlByProgramId(programId, configs)
            knownName == getKnownProgramName(programId)
            programLabel == IF idlConfig # None /\ idlConfig[1].name # ""
                            THEN idlConfig[1].name ELSE knownName
        IN  DecodedInstruction(
              programId,
              IF decoded.name # Null THEN decoded.name
              ELSE IF decoded.hasIdl THEN Null ELSE programLabel,
              decoded.data,
              [i \in 1..Len(accountIndexes) |->
                 LET pubkey == KeyAt(accountKeys, accountIndexes[i])
                 IN  DecodedAccount(pubkey,
                                    formatAddress(pubkey, addressLabels, configs),
                                    RoleAt(idlConfig, decoded.name, i - 1,
                                           accountIndexes[i]))],
              decoded.rawData, decoded.decodeError, decoded.hasIdl, FALSE)

\* --------------------------------------------------------------- log lines

\* "Program <addr> invoke [n]"
InvokeLine(addr) == [kind |-> "invoke", addr |-> addr, text |-> <<>>]
\* "Program <addr> success" and "Program <addr> failed: <reason>"
CompleteLine(addr, outcome) == [kind |-> outcome, addr |-> addr, text |-> <<>>]
\* "Program data: <text>"
DataLine(text) == [kind |-> "data", addr |-> Null, text |-> text]
\* Any other line, such as "Program <addr> consumed ..." or "Program log: ...".
OtherLine == [kind |-> "other", addr |-> Null, text |-> <<>>]

\* log.match(/^Program (\w+) invoke/): the captured address.
invokeMatch(log) == IF log.kind = "invoke" THEN Some(log.addr) ELSE None

\* log.match(/^Program (\w+) (success|failed)/): address and outcome.
completeMatch(log) ==
    IF log.kind \in {"success", "failed"}
    THEN Some([addr |-> log.addr, outcome |-> log.kind]) ELSE None

\* log.match(/^Program data: (.+)$/): the text, which `.+` wants non-empty.
dataMatch(log) ==
    IF log.kind = "data" /\ log.text # <<>> THEN Some(log.text) ELSE None

\* Event payloads a program can log: event X of schema alpha in full, the same
\* cut short, and bytes whose discriminator no schema knows.
EventXBytes == Disc(3) \o <<7, 1>>
EventXShortBytes == Disc(3) \o <<7>>
UnknownEventBytes == Disc(9) \o <<1, 2>>

LogLines ==
    {InvokeLine("Aaa"), InvokeLine("Bbb"),
     CompleteLine("Aaa", "success"), CompleteLine("Bbb", "success"),
     CompleteLine("Aaa", "failed"),
     DataLine(Base64Encode(EventXBytes)),
     DataLine(Base64Encode(EventXShortBytes)),
     DataLine(Base64Encode(UnknownEventBytes)),
     DataLine(<<>>), OtherLine}

\* The registry the decoders read.
Registry == <<CfgAlpha, CfgBeta, CfgGamma, CfgDelta, CfgEpsilon>>

\* ------------------------------------------------------------------- state

VARIABLES
    idlConfigs,        \* the registered IdlConfig list
    logs,              \* parseEventsFromLogs: the lines read so far
    currentProgramId,  \* parseEventsFromLogs: let currentProgramId
    instructionIndex,  \* parseEventsFromLogs: let instructionIndex
    programStack,      \* parseEventsFromLogs: const programStack
    events,            \* parseEventsFromLogs: const events
    call,              \* the last call of a decode function: its arguments
    result,            \* and what it returned
    queryHistory,      \* App: the stored query history
    form,              \* IdlManager: the state of the add/edit form
    clock              \* Date.now(), which moves on with every user operation

vars == <<idlConfigs, logs, currentProgramId, instructionIndex, programStack,
          events, call, result, queryHistory, form, clock>>

scanVars == <<logs, currentProgramId, instructionIndex, programStack, events>>

appVars == <<queryHistory, form, clock>>

\* The initial value of the query history (App.tsx), and the closed, empty
\* form of IdlManager (resetForm).
EmptyHistory == [transactions |-> <<>>, accounts |-> <<>>]
EmptyText == <<>>
NoForm ==
    [isAdding |-> FALSE, editingId |-> Null, idlInput |-> [empty |-> TRUE],
     nameInput |-> "", programIdsInput |-> EmptyText, error |-> Null,
     detectedVersion |-> Null]

\* The app state of a behaviour that only calls the decoders.
AppIdle ==
    /\ queryHistory = EmptyHistory
    /\ form = NoForm
    /\ clock = 0

NoCall == [fn |-> "idle", programId |-> Null, data |-> <<>>, errorMsg |-> {},
           args |-> <<>>]
NoResult == [name |-> Null, data |-> None, rawData |-> <<>>,
             decodeError |-> None, hasIdl |-> FALSE, isNull |-> TRUE]

\* ------------------------------------------------------ parseEventsFromLogs

\* A DecodedEvent pushed by parseEventsFromLogs.
LogEvent(programId, name, data, rawData, decodeError, index) ==
    [programId |-> programId, name |-> name, data |-> data,
     rawData |-> rawData, decodeError |-> decodeError,
     instructionIndex |-> index, isCpi |-> FALSE]

\* Faulty variant: an unmatched discriminator is recorded without a diagnostic.
EventOfDataLine_SilentMismatch(programId, base64Data, index, configs) ==
    LET dataBuffer == Base64Decode(base64Data)
        idlConfig  == findIdlByProgramId(programId, configs)
    IN  IF idlConfig # None
        THEN LET idl == idlConfig[1].idl
                 discriminatorHex == ToHex(Slice(dataBuffer, 0, DiscLen))
                 decoded == CoderEventsDecode(idl, base64Data)
                 eventName == findEventNameByDiscriminator(discriminatorHex, idl)
             IN  IF decoded.kind = "ok"
                 THEN LogEvent(programId, decoded.name, Some(decoded.data),
                               base64Data, None, index)
                 ELSE IF eventName # Null
                 THEN LogEvent(programId, eventName, None, base64Data,
                               Some(Diagnostic("event discriminator matched, argument decode failed",
                                               eventName, discriminatorHex, Null, <<>>, {})),
                               index)
                 ELSE LogEvent(programId, Null, None, base64Data, None, index)
        ELSE LogEvent(programId, Null, None, base64Data, None, index)

\* The body of `if (dataMatch && currentProgramId)`: the event pushed for the
\* text base64Data.  Buffer.from(text, 'base64') never raises, so the outer
\* catch is not reached.
EventOfDataLine(programId, base64Data, index, configs) ==
    LET dataBuffer == Base64Decode(base64Data)
        idlConfig  == findIdlByProgramId(programId, configs)
    IN  IF idlConfig # None
        THEN LET idl == idlConfig[1].idl
                 discriminatorHex == ToHex(Slice(dataBuffer, 0, DiscLen))
                 decoded == CoderEventsDecode(idl, base64Data)
                 eventName == findEventNameByDiscriminator(discriminatorHex, idl)
             IN  IF decoded.kind = "ok"
                 THEN LogEvent(programId, decoded.name, Some(decoded.data),
                               base64Data, None, index)
                 ELSE IF eventName # Null
                 THEN LogEvent(programId, eventName, None, base64Data,
                               Some(Diagnostic("event discriminator matched, argument decode failed",
                                               eventName, discriminatorHex, Null, <<>>, {})),
                               index)
                 ELSE LogEvent(programId, Null, None, base64Data,
                               Some(Diagnostic("no matching event in IDL",
                                               Null, discriminatorHex, idlConfig[1].name, <<>>, {})),
                               index)
        ELSE LogEvent(programId, Null, None, base64Data, None, index)

\* Array.prototype.pop: an empty array stays empty.
Pop(stack) == IF stack = <<>> THEN <<>> ELSE SubSeq(stack, 1, Len(stack) - 1)

\* Faulty variant: the bottom of the stack instead of its top.
ProgramAfterPop_Bottom(stack) ==
    IF Len(stack) > 0 THEN stack[1] ELSE Null

\* currentProgramId after a completion line, from the popped stack.
ProgramAfterPop(stack) ==
    IF Len(stack) > 0 THEN stack[Len(stack)] ELSE Null

\* Faulty variant: a failed outermost invocation counts too.
IndexAfterComplete_AnyOutcome(index, outcome, stack) ==
    IF Len(stack) = 0 THEN index + 1 ELSE index

\* instructionIndex after a completion line, from the popped stack.
IndexAfterComplete(index, outcome, stack) ==
    IF outcome = "success" /\ Len(stack) = 0 THEN index + 1 ELSE index

\* Faulty variant: a data line is taken whatever currentProgramId is.
TakesData_Always(match, programId) == match # None

\* The test `dataMatch && currentProgramId`.
TakesData(match, programId) == match # None /\ programId # Null

\* One turn of the loop on a line matching /^Program (\w+) invoke/.
ReadInvoke ==
    /\ Len(logs) < MaxLogLen
    /\ \E log \in LogLines :
        /\ invokeMatch(log) # None
        /\ logs' = Append(logs, log)
        /\ currentProgramId' = invokeMatch(log)[1]
        /\ programStack' = Append(programStack, invokeMatch(log)[1])
    /\ UNCHANGED <<appVars, idlConfigs, instructionIndex, events, call, result>>

\* Faulty variant: the completion line pops only when it names the address on
\* top of the stack.
ReadComplete_MatchingTop ==
    /\ Len(logs) < MaxLogLen
    /\ \E log \in LogLines :
        /\ invokeMatch(log) = None
        /\ completeMatch(log) # None
        /\ logs' = Append(logs, log)
        /\ programStack' =
             IF programStack # <<>>
                /\ programStack[Len(programStack)] = completeMatch(log)[1].addr
             THEN Pop(programStack) ELSE programStack
        /\ currentProgramId' = ProgramAfterPop(programStack')
        /\ instructionIndex' =
             IndexAfterComplete(instructionIndex, completeMatch(log)[1].outcome,
                                programStack')
    /\ UNCHANGED <<appVars, idlConfigs, events, call, result>>

\* One turn of the loop on a line matching /^Program (\w+) (success|failed)/.
ReadComplete ==
    /\ Len(logs) < MaxLogLen
    /\ \E log \in LogLines :
        /\ invokeMatch(log) = None
        /\ completeMatch(log) # None
        /\ logs' = Append(logs, log)
        /\ programStack' = Pop(programStack)
        /\ currentProgramId' = ProgramAfterPop(programStack')
        /\ instructionIndex' =
             IndexAfterComplete(instructionIndex, completeMatch(log)[1].outcome,
                                programStack')
    /\ UNCHANGED <<appVars, idlConfigs, events, call, result>>

\* One turn of the loop on a data line while currentProgramId is set.
ReadData ==
    /\ Len(logs) < MaxLogLen
    /\ \E log \in LogLines :
        /\ invokeMatch(log) = None
        /\ completeMatch(log) = None
        /\ TakesData(dataMatch(log), currentProgramId)
        /\ logs' = Append(logs, log)
        /\ events' = Append(events,
                            EventOfDataLine(currentProgramId, dataMatch(log)[1],
                                            instructionIndex, idlConfigs))
    /\ UNCHANGED <<appVars, idlConfigs, currentProgramId, instructionIndex, programStack,
                   call, result>>

\* One turn of the loop on a line no branch takes: no pattern matches, or a
\* data line is read while currentProgramId is null.
ReadIgnored ==
    /\ Len(logs) < MaxLogLen
    /\ \E log \in LogLines :
        /\ invokeMatch(log) = None
        /\ completeMatch(log) = None
        /\ ~TakesData(dataMatch(log), currentProgramId)
        /\ logs' = Append(logs, log)
    /\ UNCHANGED <<appVars, idlConfigs, currentProgramId, instructionIndex, programStack,
                   events, call, result>>

Init ==
    /\ idlConfigs = Registry
    /\ AppIdle
    /\ logs = <<>>
    /\ currentProgramId = Null
    /\ instructionIndex = 0
    /\ programStack = <<>>
    /\ events = <<>>
    /\ call = NoCall
    /\ result = NoResult

Next == ReadInvoke \/ ReadComplete \/ ReadData \/ ReadIgnored

Spec == Init /\ [][Next]_vars

\* The state of the loop of parseEventsFromLogs after one more line.
ScanLine(st, log, configs) ==
    IF invokeMatch(log) # None
    THEN [st EXCEPT !.currentProgramId = invokeMatch(log)[1],
                    !.programStack = Append(st.programStack, invokeMatch(log)[1])]
    ELSE IF completeMatch(log) # None
    THEN LET popped == Pop(st.programStack)
         IN  [st EXCEPT !.programStack = popped,
                        !.currentProgramId = ProgramAfterPop(popped),
                        !.instructionIndex =
                            IndexAfterComplete(st.instructionIndex,
                                               completeMatch(log)[1].outcome,
                                               popped)]
    ELSE IF TakesData(dataMatch(log), st.currentProgramId)
    THEN [st EXCEPT !.events =
            Append(st.events,
                   EventOfDataLine(st.currentProgramId, dataMatch(log)[1],
                                   st.instructionIndex, configs))]
    ELSE st

\* The state of the loop after all of lines.
RECURSIVE ScanLines(_, _)
ScanLines(lines, configs) ==
    IF lines = <<>>
    THEN [events |-> <<>>, currentProgramId |-> Null, instructionIndex |-> 0,
          programStack |-> <<>>]
    ELSE ScanLine(ScanLines(SubSeq(lines, 1, Len(lines) - 1), configs),
                  lines[Len(lines)], configs)

\* parseEventsFromLogs(logs, idlConfigs): the events of the whole list.
parseEventsFromLogs(lines, configs) == ScanLines(lines, configs).events

\* --------------------------------------------- calls of the decode functions

\* Registries the decode functions are called with: the full one, one that
\* registers beta before alpha, one of the schemas with many instructions,
\* and the empty one.
Registries ==
    {Registry, <<CfgBeta, CfgAlpha, CfgGamma>>,
     <<CfgZeta, CfgEta, CfgTheta, CfgKappa, CfgLambda>>, <<>>}

ProgramIds ==
    {"Aaa", "Bbb", "Ccc", "Ddd", "Eee", "Fff", "Ggg", "Hhh", "Iii", "Jjj",
     "11111111111111111111111111111111"}

\* Whole log lists parseEventsFromLogs is called with: event X logged by
\* "Aaa", and events logged by "Ccc" and, nested in it, by "Aaa".
LogLists ==
    { <<InvokeLine("Aaa"), DataLine(Base64Encode(EventXBytes)),
        CompleteLine("Aaa", "success")>>,
      <<InvokeLine("Ccc"), DataLine(Base64Encode(EventXShortBytes)),
        InvokeLine("Aaa"), DataLine(Base64Encode(EventXBytes)),
        CompleteLine("Aaa", "success"),
        DataLine(Base64Encode(UnknownEventBytes)),
        CompleteLine("Ccc", "success")>> }

\* Account data, as bytes: what P and Q both decode, what P alone decodes,
\* a discriminator without its field, R in full, R with a byte that is no
\* boolean, the data of S, an unknown discriminator, and nothing.
AccountDataBytes ==
    { <<1, 2>>, <<1, 7, 9>>, <<1>>, <<3, 1>>, <<3, 5>>, <<5, 0>>, <<8, 8>>, <<>> }

\* The account table of a transaction, and account-index lists of
\* instructions: none, a short one, one longer than every role list and with a
\* repeated account, and one with an index outside the table.
AccountKeys == <<"K1", "K2", "K3", "Aaa">>
AccountIndexLists == {<<>>, <<1, 0>>, <<2, 0, 1, 3, 0, 1>>, <<3, 7>>}

\* Address label lists of the user: none, and one with a repeated address
\* and an empty label.
AddressLabelLists ==
    { <<>>,
      << [address |-> "K1", label |-> "Wallet"],
         [address |-> "K1", label |-> "Other"],
         [address |-> "K2", label |-> ""] >> }

\* Instruction payloads, as bytes.
PayloadBytes ==
    { <<>>, <<1, 2, 3>>, <<0, 0, 1>>,
      Disc(1) \o <<5, 1, 2>>, Disc(1) \o <<5>>, Disc(1) \o <<1>>, Disc(1),
      Disc(2) \o <<1>>, Disc(2) \o <<2>>, Disc(2),
      Disc(9) \o <<0>>, Disc(24),
      <<9>>, EventIxTag \o <<7>>,
      EventIxTag \o Disc(3) \o <<7, 1>>, EventIxTag \o Disc(3) \o <<7>>,
      EventIxTag \o Disc(3), EventIxTag \o Disc(4),
      EventIxTag \o Disc(9) \o <<1>>,
      EventIxTag \o Slice(Disc(3), 0, DiscLen - 1),
      EventIxTag \o <<7, 0, 0, 0, 0, 0, 0, 0>> }

\* The base58 text of each payload, and two texts holding a character outside
\* the alphabet.
DataTexts ==
    {Bs58Encode(b) : b \in PayloadBytes}
    \cup {<<58>>, Bs58Encode(Disc(1) \o <<5, 1, 2>>) \o <<58>>}

\* The arguments of a call that has not been made yet.
Pending(programId, data, errorMsg) ==
    [fn |-> "none", programId |-> programId, data |-> data, errorMsg |-> errorMsg,
     args |-> <<>>]

\* A decode function is about to be called with arguments drawn from the
\* sets above; errorMsg is the text of the Error the coder raises, if it does.
InitDecode ==
    /\ idlConfigs \in Registries
    /\ AppIdle
    /\ logs = <<>>
    /\ currentProgramId = Null
    /\ instructionIndex = 0
    /\ programStack = <<>>
    /\ events = <<>>
    /\ \E programId \in ProgramIds, data \in DataTexts, errorMsg \in ErrorMsgs :
         call = Pending(programId, data, errorMsg)
    /\ result = NoResult

\* The call decodeInstructionData(programId, data, idlConfigs).
CallDecodeInstructionData ==
    /\ call.fn = "none"
    /\ call' = [call EXCEPT !.fn = "decodeInstructionData"]
    /\ result' = decodeInstructionData(call.programId, call.data, idlConfigs,
                                       call.errorMsg)
    /\ UNCHANGED <<appVars, idlConfigs, scanVars>>

\* The call tryDecodeCpiEvent(programId, dataBase58, idlConfigs).
CallTryDecodeCpiEvent ==
    /\ call.fn = "none"
    /\ call' = [call EXCEPT !.fn = "tryDecodeCpiEvent"]
    /\ result' = tryDecodeCpiEvent(call.programId, call.data, idlConfigs)
    /\ UNCHANGED <<appVars, idlConfigs, scanVars>>

\* The call parseInstruction(programId, data, accountKeys, accountIndexes,
\* idlConfigs, addressLabels, tryParseAsEvent).
CallParseInstruction ==
    /\ call.fn = "none"
    /\ \E accountIndexes \in AccountIndexLists,
          addressLabels \in AddressLabelLists, tryParseAsEvent \in BOOLEAN :
         /\ call' = [call EXCEPT
                       !.fn = "parseInstruction",
                       !.args = [accountKeys |-> AccountKeys,
                                 accountIndexes |-> accountIndexes,
                                 addressLabels |-> addressLabels,
                                 tryParseAsEvent |-> tryParseAsEvent]]
         /\ result' = parseInstruction(call.programId, call.data, AccountKeys,
                                       accountIndexes, idlConfigs, addressLabels,
                                       tryParseAsEvent, call.errorMsg)
    /\ UNCHANGED <<appVars, idlConfigs, scanVars>>

\* The call decodeAccountData(owner, data, idlConfigs): the owner is the
\* address of the pending call, the data one of the byte strings above.
CallDecodeAccountData ==
    /\ call.fn = "none"
    /\ \E data \in AccountDataBytes :
         /\ call' = [fn |-> "decodeAccountData", programId |-> call.programId,
                     data |-> data, errorMsg |-> {}, args |-> <<>>]
         /\ result' = decodeAccountData(call.programId, data, idlConfigs)
    /\ UNCHANGED <<appVars, idlConfigs, scanVars>>

\* The call parseEventsFromLogs(logs, idlConfigs) on a whole log list.
CallParseEventsFromLogs ==
    /\ call.fn = "none"
    /\ \E lines \in LogLists :
         /\ call' = [fn |-> "parseEventsFromLogs", programId |-> Null,
                     data |-> <<>>, errorMsg |-> {}, args |-> [logs |-> lines]]
         /\ result' = parseEventsFromLogs(lines, idlConfigs)
    /\ UNCHANGED <<appVars, idlConfigs, scanVars>>

NextDecode ==
    \/ CallParseEventsFromLogs
    \/ CallDecodeAccountData
    \/ CallDecodeInstructionData
    \/ CallTryDecodeCpiEvent
    \/ CallParseInstruction

SpecDecode == InitDecode /\ [][NextDecode]_vars

\* ------------------------------------------------------------ idlNormalizer

\* What a function of idlNormalizer.ts does: it returns a value or raises.
Returns(value) == [kind |-> "ok", value |-> value]
Throws == [kind |-> "throw", value |-> JUndefined]

\* Faulty variant: nested account groups are not looked into.
checkAccounts_TopLevelOnly(accounts) ==
    IF \E i \in 1..Len(accounts) : ~Is(accounts[i], "object") THEN "throw"
    ELSE IF \E i \in 1..Len(accounts) :
               In("isMut", accounts[i]) \/ In("isSigner", accounts[i])
    THEN "yes" ELSE "no"

\* checkAccounts of detectIdlVersion: "yes" at the first entry, in depth-first
\* order, that has a key isMut or isSigner, "no" when there is none; the `in`
\* operator raises on an entry that is no object.
RECURSIVE checkAccounts(_)
checkAccounts(accounts) ==
    IF accounts = <<>> THEN "no"
    ELSE LET account == Head(accounts)
         IN  IF ~Is(account, "object") THEN "throw"
             ELSE IF In("isMut", account) \/ In("isSigner", account) THEN "yes"
             ELSE LET nested ==
                        IF In("accounts", account)
                           /\ IsArray(Get(account, "accounts"))
                        THEN checkAccounts(Get(account, "accounts").array)
                        ELSE "no"
                  IN  IF nested # "no" THEN nested
                      ELSE checkAccounts(Tail(accounts))

\* The loop `for (const ix of instructions)` of detectIdlVersion.
RECURSIVE DetectInstructions(_)
DetectInstructions(instructions) ==
    IF instructions = <<>> THEN Returns("modern")
    ELSE LET ix == Head(instructions)
             accounts == Get(ix, "accounts")
         IN  IF Is(ix, "null") \/ Is(ix, "undefined") THEN Throws
             ELSE IF ~Truthy(accounts) THEN DetectInstructions(Tail(instructions))
             ELSE IF ~IsArray(accounts) THEN Throws
             ELSE LET found == checkAccounts(accounts.array)
                  IN  IF found = "yes" THEN Returns("legacy")
                      ELSE IF found = "throw" THEN Throws
                      ELSE DetectInstructions(Tail(instructions))

\* detectIdlVersion(idl).  Reading a property of null raises; a value without
\* an instruction array, or with an empty one, is modern.
detectIdlVersion(idl) ==
    IF Is(idl, "null") \/ Is(idl, "undefined") THEN Throws
    ELSE LET instructions == Get(idl, "instructions")
         IN  IF ~IsArray(instructions) \/ Len(instructions.array) = 0
             THEN Returns("modern")
             ELSE DetectInstructions(instructions.array)

\* Faulty variant: a flag that is not set is written as an explicit false
\* under its legacy key.
NormalizeLeaf_ExplicitFalse(acc) ==
    LET keys == {"name"}
                \cup {IF Truthy(Get(acc, "isMut")) THEN "writable" ELSE "isMut"}
                \cup {IF Truthy(Get(acc, "isSigner")) THEN "signer" ELSE "isSigner"}
    IN  JObj([k \in keys |->
                IF k = "name" THEN Get(acc, "name")
                ELSE IF k \in {"writable", "signer"} THEN JTrue ELSE JFalse])

\* The entry normalizeAccounts builds for an account that is no group.
NormalizeLeaf(acc) ==
    LET keys == {"name"}
                \cup (IF Truthy(Get(acc, "isMut")) THEN {"writable"} ELSE {})
                \cup (IF Truthy(Get(acc, "isSigner")) THEN {"signer"} ELSE {})
                \cup (IF Truthy(Get(acc, "isOptional")) THEN {"optional"} ELSE {})
                \cup (IF Truthy(Get(acc, "docs")) THEN {"docs"} ELSE {})
                \cup (IF Truthy(Get(acc, "pda")) THEN {"pda"} ELSE {})
    IN  JObj([k \in keys |->
                IF k = "name" THEN Get(acc, "name")
                ELSE IF k = "docs" THEN Get(acc, "docs")
                ELSE IF k = "pda" THEN Get(acc, "pda")
                ELSE JTrue])

\* Faulty variant: the members of a group are taken over as they are.
NormalizeGroup_Shallow(nested, accounts) ==
    JObj([name |-> Get(nested, "name"), accounts |-> Get(nested, "accounts")])

\* The entry normalizeAccounts builds for a nested account group, from the
\* group and its normalized members.
NormalizeGroup(nested, accounts) ==
    JObj([name |-> Get(nested, "name"), accounts |-> JArr(accounts)])

\* normalizeAccounts(accounts): accounts.map over the entries; the `in`
\* operator raises on an entry that is no object.
RECURSIVE normalizeAccounts(_)
normalizeAccounts(accounts) ==
    IF accounts = <<>> THEN Returns(<<>>)
    ELSE LET acc == Head(accounts)
             rest == normalizeAccounts(Tail(accounts))
         IN  IF ~Is(acc, "object") \/ rest.kind = "throw" THEN Throws
             ELSE IF In("accounts", acc) /\ IsArray(Get(acc, "accounts"))
             THEN LET inner == normalizeAccounts(Get(acc, "accounts").array)
                  IN  IF inner.kind = "throw" THEN Throws
                      ELSE Returns(<<NormalizeGroup(acc, inner.value)>>
                                   \o rest.value)
             ELSE Returns(<<NormalizeLeaf(acc)>> \o rest.value)

\* { ...ix, accounts: normalizeAccounts(ix.accounts) }: `.map` raises on an
\* account list that is no array.
NormalizeInstruction(ix) ==
    LET accounts == Get(ix, "accounts")
    IN  IF ~IsArray(accounts) THEN Throws
        ELSE LET normalized == normalizeAccounts(accounts.array)
             IN  IF normalized.kind = "throw" THEN Throws
                 ELSE Returns(JObj([k \in DOMAIN ix.object \cup {"accounts"} |->
                                      IF k = "accounts" THEN JArr(normalized.value)
                                      ELSE ix.object[k]]))

\* instructions.map(...) of normalizeIdl.
RECURSIVE NormalizeInstructions(_)
NormalizeInstructions(instructions) ==
    IF instructions = <<>> THEN Returns(<<>>)
    ELSE LET first == NormalizeInstruction(Head(instructions))
             rest  == NormalizeInstructions(Tail(instructions))
         IN  IF first.kind = "throw" \/ rest.kind = "throw" THEN Throws
             ELSE Returns(<<first.value>> \o rest.value)

\* Faulty variant: a modern schema is rewritten like a legacy one.
normalizeIdl_AlwaysRewrite(idl) ==
    LET version == detectIdlVersion(idl)
    IN  IF version.kind = "throw" THEN Throws
        ELSE IF ~IsArray(Get(idl, "instructions")) THEN Returns(idl)
        ELSE LET instructions == NormalizeInstructions(Get(idl, "instructions").array)
             IN  IF instructions.kind = "throw" THEN Throws
                 ELSE Returns(JObj([k \in DOMAIN idl.object |->
                                      IF k = "instructions"
                                      THEN JArr(instructions.value)
                                      ELSE idl.object[k]]))

\* normalizeIdl(idl): a modern schema is returned as it is; of a legacy one,
\* which has a non-empty instruction array, the instructions are rewritten.
normalizeIdl(idl) ==
    LET version == detectIdlVersion(idl)
    IN  IF version.kind = "throw" THEN Throws
        ELSE IF version.value = "modern" THEN Returns(idl)
        ELSE LET instructions == NormalizeInstructions(Get(idl, "instructions").array)
             IN  IF instructions.kind = "throw" THEN Throws
                 ELSE Returns(JObj([k \in DOMAIN idl.object |->
                                      IF k = "instructions"
                                      THEN JArr(instructions.value)
                                      ELSE idl.object[k]]))

\* The return value of validateIdl.
Validation(valid, error) == [valid |-> valid, error |-> error]

\* The third test of validateIdl, negated: idlObj.name || idlObj.metadata.
HasNameOrMetadata(idlObj) ==
    Truthy(Get(idlObj, "name")) \/ Truthy(Get(idlObj, "metadata"))

\* validateIdl(idl).  typeof is 'object' for objects, arrays and null.
validateIdl(idl) ==
    IF ~Truthy(idl) \/ ~(Is(idl, "object") \/ Is(idl, "array"))
    THEN Validation(FALSE, "IDL must be an object")
    ELSE IF ~Truthy(Get(idl, "instructions")) \/ ~IsArray(Get(idl, "instructions"))
    THEN Validation(FALSE, "IDL lacks instructions")
    ELSE IF ~HasNameOrMetadata(idl)
    THEN Validation(FALSE, "IDL lacks name or metadata")
    ELSE Validation(TRUE, Null)

\* --------------------------------------------------- calls of the normalizer

\* Account-role entries of raw schemas.
DocsValue == JArr(<<JStr("the payer")>>)
PdaValue == JObj([seeds |-> JArr(<<JStr("vault")>>)])

\* Legacy entries: both flags; all the optional fields; a key the legacy
\* format has and the normalizer does not name; a flag that is only false.
LegacyMut == JObj([name |-> JStr("a"), isMut |-> JTrue, isSigner |-> JFalse])
LegacyFull ==
    JObj([name |-> JStr("b"), isMut |-> JFalse, isSigner |-> JTrue,
          isOptional |-> JTrue, docs |-> DocsValue, pda |-> PdaValue])
LegacyRelations ==
    JObj([name |-> JStr("e"), isMut |-> JTrue, isSigner |-> JFalse,
          relations |-> JArr(<<JStr("authority")>>)])
LegacyFalse == JObj([name |-> JStr("f"), isSigner |-> JFalse])
\* Modern entries: flags, no flag, and a fixed address.
ModernBoth == JObj([name |-> JStr("c"), writable |-> JTrue, signer |-> JTrue])
Plain == JObj([name |-> JStr("d")])
ModernAddress ==
    JObj([name |-> JStr("h"), writable |-> JTrue, address |-> JStr("Sys")])
\* An entry with a flag of each convention.
Mixed == JObj([name |-> JStr("m"), isMut |-> JTrue, signer |-> JTrue])
\* Groups: of legacy entries; documented, holding a group whose only member
\* has the one legacy key of the schema; of modern entries.
GroupLegacy ==
    JObj([name |-> JStr("g"), accounts |-> JArr(<<LegacyMut, Plain>>)])
GroupDeep ==
    JObj([name |-> JStr("outer"), docs |-> DocsValue,
          accounts |->
            JArr(<<JObj([name |-> JStr("inner"),
                         accounts |-> JArr(<<LegacyFalse>>)])>>)])
GroupModern ==
    JObj([name |-> JStr("gm"), accounts |-> JArr(<<ModernBoth>>)])

\* Account lists of raw instructions.
AccountLists ==
    { <<>>, <<LegacyMut, LegacyFull>>, <<ModernBoth, Plain>>, <<LegacyRelations>>,
      <<GroupLegacy, ModernBoth>>, <<GroupDeep>>, <<GroupModern, ModernAddress>>,
      <<Mixed, ModernBoth>>, <<LegacyMut, JStr("oops")>> }

\* A raw instruction with an account list, and one without.
RawIx(accounts) ==
    JObj([name |-> JStr("ix"), args |-> JArr(<<>>), docs |-> DocsValue,
          accounts |-> JArr(accounts)])
RawIxNoAccounts == JObj([name |-> JStr("bare"), args |-> JArr(<<>>)])

RawInstructions == {RawIx(accounts) : accounts \in AccountLists} \cup {RawIxNoAccounts}

\* Longest instruction list of a raw schema.
MaxInstructions == 2

RawInstructionLists ==
    UNION {[1..n -> RawInstructions] : n \in 0..MaxInstructions}

\* Raw schemas: every instruction list under a top-level name, and under a
\* metadata name.
RawSchemas ==
    {JObj([name |-> JStr("prog"), version |-> JStr("0.1.0"),
           instructions |-> JArr(ixs)]) : ixs \in RawInstructionLists}
    \cup
    {JObj([metadata |-> JObj([name |-> JStr("prog")]), address |-> JStr("Aaa"),
           instructions |-> JArr(ixs)]) : ixs \in RawInstructionLists}

\* Other values a user can paste: no object, no instruction list, an
\* instruction list that is no array, no name, an empty name, metadata
\* without a name, a name that is no string.
OtherRawValues ==
    { JNull, JStr("text"), JNum(5), JNum(0), JTrue, JArr(<<>>),
      JEmpty,
      JObj([name |-> JStr("prog")]),
      JObj([name |-> JStr("prog"), instructions |-> JStr("none")]),
      JObj([name |-> JStr("prog"), instructions |-> JNull]),
      JObj([instructions |-> JArr(<<>>)]),
      JObj([instructions |-> JArr(<<RawIx(<<LegacyMut>>)>>)]),
      JObj([name |-> JStr(""), instructions |-> JArr(<<>>)]),
      JObj([metadata |-> JEmpty, instructions |-> JArr(<<>>)]),
      JObj([metadata |-> JObj([version |-> JStr("0.1.0")]),
            instructions |-> JArr(<<RawIx(<<ModernBoth>>)>>)]),
      JObj([name |-> JStr(""), metadata |-> JObj([name |-> JStr("prog")]),
            instructions |-> JArr(<<>>)]),
      JObj([name |-> JNum(7), instructions |-> JArr(<<>>)]),
      JObj([metadata |-> JStr("meta")]) }

\* A function of idlNormalizer.ts is about to be called on a raw value.
InitNormalize ==
    /\ idlConfigs = <<>>
    /\ AppIdle
    /\ logs = <<>>
    /\ currentProgramId = Null
    /\ instructionIndex = 0
    /\ programStack = <<>>
    /\ events = <<>>
    /\ \E idl \in RawSchemas \cup OtherRawValues :
         call = [fn |-> "none", programId |-> Null, data |-> <<>>,
                 errorMsg |-> {}, args |-> [idl |-> idl]]
    /\ result = NoResult

CallDetectIdlVersion ==
    /\ call.fn = "none"
    /\ call' = [call EXCEPT !.fn = "detectIdlVersion"]
    /\ result' = detectIdlVersion(call.args.idl)
    /\ UNCHANGED <<appVars, idlConfigs, scanVars>>

CallNormalizeIdl ==
    /\ call.fn = "none"
    /\ call' = [call EXCEPT !.fn = "normalizeIdl"]
    /\ result' = normalizeIdl(call.args.idl)
    /\ UNCHANGED <<appVars, idlConfigs, scanVars>>

CallValidateIdl ==
    /\ call.fn = "none"
    /\ call' = [call EXCEPT !.fn = "validateIdl"]
    /\ result' = validateIdl(call.args.idl)
    /\ UNCHANGED <<appVars, idlConfigs, scanVars>>

NextNormalize == CallDetectIdlVersion \/ CallNormalizeIdl \/ CallValidateIdl

SpecNormalize == InitNormalize /\ [][NextNormalize]_vars

\* ------------------------------------------------------------ query history

\* const MAX_HISTORY of App.tsx.
MAX_HISTORY == 20

\* prev.filter((s) => s !== entry).
Without(list, entry) ==
    LET Other(s) == s # entry
    IN  SelectSeq(list, Other)

\* Faulty variant: the entry is put in front without removing its older copy.
AddToHistory_KeepOlder(list, entry) == FirstN(<<entry>> \o list, MAX_HISTORY)

\* [entry, ...filtered].slice(0, MAX_HISTORY) of addTransactionHistory and
\* addAccountHistory.
AddToHistory(list, entry) ==
    FirstN(<<entry>> \o Without(list, entry), MAX_HISTORY)

\* Histories as localStorage returns them at start, written by earlier
\* sessions: none, one entry short of full, and full.  Entries are numbered;
\* entry k stands for one signature or address text.
StoredHistory(n) == [k \in 1..n |-> k]
StoredHistories ==
    {StoredHistory(0), StoredHistory(MAX_HISTORY - 1), StoredHistory(MAX_HISTORY)}

\* What the user queries: the newest and the oldest stored entry, and entries
\* no stored list holds.
Signatures == {1, MAX_HISTORY, MAX_HISTORY + 1, MAX_HISTORY + 2}
Addresses == {1, MAX_HISTORY + 1}

InitHistory ==
    /\ idlConfigs = <<>>
    /\ logs = <<>>
    /\ currentProgramId = Null
    /\ instructionIndex = 0
    /\ programStack = <<>>
    /\ events = <<>>
    /\ call = NoCall
    /\ result = NoResult
    /\ form = NoForm
    /\ clock = 0
    /\ \E transactions \in StoredHistories, accounts \in StoredHistories :
         queryHistory = [transactions |-> transactions, accounts |-> accounts]

addTransactionHistory ==
    /\ \E signature \in Signatures :
         queryHistory' =
           [queryHistory EXCEPT
              !.transactions = AddToHistory(queryHistory.transactions, signature)]
    /\ UNCHANGED <<idlConfigs, scanVars, call, result, form, clock>>

addAccountHistory ==
    /\ \E address \in Addresses :
         queryHistory' =
           [queryHistory EXCEPT
              !.accounts = AddToHistory(queryHistory.accounts, address)]
    /\ UNCHANGED <<idlConfigs, scanVars, call, result, form, clock>>

clearTransactionHistory ==
    /\ queryHistory' = [queryHistory EXCEPT !.transactions = <<>>]
    /\ UNCHANGED <<idlConfigs, scanVars, call, result, form, clock>>

clearAccountHistory ==
    /\ queryHistory' = [queryHistory EXCEPT !.accounts = <<>>]
    /\ UNCHANGED <<idlConfigs, scanVars, call, result, form, clock>>

NextHistory ==
    \/ addTransactionHistory
    \/ addAccountHistory
    \/ clearTransactionHistory
    \/ clearAccountHistory

SpecHistory == InitHistory /\ [][NextHistory]_vars

\* ------------------------------------------------------ address and schema texts

\* Characters of a text: 0..57 are the base58 alphabet; then a character
\* outside it, a blank, a line break and a comma.
OutsideChar == 58
SpaceChar == 59
NewlineChar == 60
CommaChar == 61

\* The bounds {32,44} of the pattern of isValidSolanaAddress.
MinAddressLen == 32
MaxAddressLen == 44

\* isValidSolanaAddress: /^[1-9A-HJ-NP-Za-km-z]{32,44}$/.test(address).
isValidSolanaAddress(address) ==
    /\ Len(address) >= MinAddressLen
    /\ Len(address) <= MaxAddressLen
    /\ \A i \in 1..Len(address) : address[i] < OutsideChar

\* text.split(/[,\n]/): the pieces between the separators, empty ones too.
RECURSIVE Split(_)
Split(text) ==
    LET seps == {i \in 1..Len(text) : text[i] \in {CommaChar, NewlineChar}}
    IN  IF seps = {} THEN <<text>>
        ELSE LET k == CHOOSE i \in seps : \A j \in seps : i <= j
             IN  <<SubSeq(text, 1, k - 1)>> \o Split(SubSeq(text, k + 1, Len(text)))

\* String.prototype.trim on a piece: the blanks at both ends go.
Trim(piece) ==
    LET inked == {i \in 1..Len(piece) : piece[i] # SpaceChar}
    IN  IF inked = {} THEN <<>>
        ELSE SubSeq(piece, CHOOSE i \in inked : \A j \in inked : i <= j,
                    CHOOSE i \in inked : \A j \in inked : i >= j)

\* programIdsInput.split(/[,\n]/).map(trim).filter(non-empty) of handleSave.
ParseProgramIds(input) ==
    LET pieces == Split(input)
        NonEmpty(id) == Len(id) > 0
    IN  SelectSeq([i \in 1..Len(pieces) |-> Trim(pieces[i])], NonEmpty)

\* ids.join('\n').
RECURSIVE Join(_)
Join(ids) ==
    IF ids = <<>> THEN <<>>
    ELSE IF Len(ids) = 1 THEN ids[1]
    ELSE ids[1] \o <<NewlineChar>> \o Join(Tail(ids))

\* The value JSON.parse gives back for the text JSON.stringify writes: an
\* object key whose value is undefined is left out, an undefined array item
\* becomes null.
RECURSIVE Stringified(_)
Stringified(j) ==
    IF Is(j, "object")
    THEN JObj([k \in {k \in DOMAIN j.object : ~Is(j.object[k], "undefined")} |->
                 Stringified(j.object[k])])
    ELSE IF Is(j, "array")
    THEN JArr([i \in 1..Len(j.array) |->
                 IF Is(j.array[i], "undefined") THEN JNull
                 ELSE Stringified(j.array[i])])
    ELSE j

\* A text: the JSON text of a value, the empty text, or a text that is no JSON.
JSONStringify(j) == [json |-> Stringified(j)]
BlankText == [empty |-> TRUE]
GarbageText == [garbage |-> TRUE]

\* JSON.parse(text): raises on a text that is no JSON, the empty one included.
JSONParse(text) ==
    IF DOMAIN text = {"json"} THEN Returns(text.json) ELSE Throws

\* getIdlName(idl) of idlNormalizer.ts.
getIdlName(idl) ==
    LET metadata == Get(idl, "metadata")
    IN  IF Is(Get(idl, "name"), "string") THEN Get(idl, "name").string
        ELSE IF Truthy(metadata) /\ Is(metadata, "object")
                /\ Is(Get(metadata, "name"), "string")
        THEN Get(metadata, "name").string
        ELSE "Unknown Program"

\* ----------------------------------------------------------------- IdlManager

\* Longest sequence of user operations on the registry.
MaxClock == 7

\* An IdlConfig as the registry stores it.
IdlConfig(id, name, idl, originalVersion, programIds) ==
    [id |-> id, name |-> name, idl |-> idl, originalVersion |-> originalVersion,
     programIds |-> programIds]

\* --------------------------------------------------- inputs of the registry

\* Address texts: the System Program address, one of the greatest length, one
\* too short, one too long, and one with a character outside the alphabet.
AddrSys == Repl(0, MinAddressLen)
AddrLong == Repl(1, MaxAddressLen)
AddrShort == Repl(0, MinAddressLen - 1)
AddrTooLong == Repl(1, MaxAddressLen + 1)
AddrOutside == Repl(0, MinAddressLen - 1) \o <<OutsideChar>>

\* Schemas the user pastes: a legacy one with its address in the metadata and
\* an entry without name; a modern one with a top-level address and a
\* metadata name; a legacy one with an instruction that lists no accounts;
\* and one without instruction list.
LegacySchema ==
    JObj([name |-> JStr("prog"),
          metadata |-> JObj([address |-> JStr(AddrLong)]),
          instructions |->
            JArr(<<RawIx(<<LegacyMut, LegacyFull, JObj([isSigner |-> JTrue])>>)>>)])
ModernSchema ==
    JObj([address |-> JStr(AddrSys),
          metadata |-> JObj([name |-> JStr("modern")]),
          instructions |-> JArr(<<RawIx(<<ModernBoth, Plain>>)>>)])
BareSchema ==
    JObj([name |-> JStr("prog"),
          instructions |-> JArr(<<RawIx(<<LegacyMut>>), RawIxNoAccounts>>)])
NoInstructionsSchema == JObj([name |-> JStr("prog")])

SchemaTexts ==
    {JSONStringify(LegacySchema), JSONStringify(ModernSchema),
     JSONStringify(BareSchema), JSONStringify(NoInstructionsSchema),
     GarbageText, BlankText}

NameTexts == {"", "my"}

\* Address lists as typed: nothing; two addresses with comma, blank and a
\* closing line break; a good and a bad address; blanks only; one too long.
ProgramIdTexts ==
    {EmptyText,
     AddrSys \o <<CommaChar, SpaceChar>> \o AddrLong \o <<NewlineChar>>,
     AddrSys \o <<NewlineChar>> \o AddrOutside,
     <<SpaceChar, NewlineChar, SpaceChar>>,
     AddrTooLong}

\* Configuration files: one the app exported, and one written by hand, with
\* a legacy schema as pasted and no address, and with a value that is no
\* schema and an address that is none.
ExportedFile ==
    <<IdlConfig("e1", "modern", ModernSchema, "modern", <<AddrSys>>)>>
HandWrittenFile ==
    <<IdlConfig("h1", "", LegacySchema, "legacy", <<>>),
      IdlConfig("h2", "bad", NoInstructionsSchema, "modern", <<AddrOutside>>)>>
ImportFiles == {ExportedFile, HandWrittenFile}

\* The addresses handleIdlInputChange fills in: the schema's address, then
\* its metadata.address, each when it is a string that passes the format check.
AutoAddresses(parsed) ==
    LET Valid(a) == Is(a, "string") /\ isValidSolanaAddress(a.string)
        top  == Get(parsed, "address")
        meta == Get(Get(parsed, "metadata"), "address")
    IN  (IF Valid(top) THEN <<top.string>> ELSE <<>>)
        \o (IF Valid(meta) /\ ~(Valid(top) /\ top = meta)
            THEN <<meta.string>> ELSE <<>>)

\* The form after handleIdlInputChange(value).
IdlInputChanged(f, value) ==
    LET base   == [f EXCEPT !.idlInput = value, !.error = Null,
                            !.detectedVersion = Null]
        parsed == JSONParse(value)
    IN  IF DOMAIN value = {"empty"} THEN base
        ELSE IF parsed.kind = "throw"
        THEN [base EXCEPT !.error = "JSON format error"]
        ELSE IF ~validateIdl(parsed.value).valid
        THEN [base EXCEPT !.error = validateIdl(parsed.value).error]
        ELSE IF detectIdlVersion(parsed.value).kind = "throw"
        THEN [base EXCEPT !.error = "JSON format error"]
        ELSE [base EXCEPT
                !.detectedVersion = detectIdlVersion(parsed.value).value,
                !.nameInput = IF @ = "" THEN getIdlName(parsed.value) ELSE @,
                !.programIdsInput =
                    IF @ = EmptyText /\ AutoAddresses(parsed.value) # <<>>
                    THEN Join(AutoAddresses(parsed.value)) ELSE @]

\* Faulty variant: an edit keeps the version the binding was added with.
UpdatedConfigs_KeepVersion(configs, editingId, name, idl, version, programIds) ==
    [k \in 1..Len(configs) |->
        IF configs[k].id = editingId
        THEN [configs[k] EXCEPT !.name = name, !.idl = idl,
                                !.programIds = programIds]
        ELSE configs[k]]

\* idlConfigs.map(...) of handleSave in edit mode: every config with the id
\* under edit gets the new name, schema, version and addresses.
UpdatedConfigs(configs, editingId, name, idl, version, programIds) ==
    [k \in 1..Len(configs) |->
        IF configs[k].id = editingId
        THEN [configs[k] EXCEPT !.name = name, !.idl = idl,
                                !.originalVersion = version,
                                !.programIds = programIds]
        ELSE configs[k]]

\* What handleSave does with the form f at time now: the error it shows, or
\* the registry it hands to onIdlConfigsChange.
SaveOutcome(f, configs, now) ==
    LET parsed     == JSONParse(f.idlInput)
        programIds == ParseProgramIds(f.programIdsInput)
        Rejected(error) == [saved |-> FALSE, error |-> error, configs |-> configs]
    IN  IF parsed.kind = "throw" THEN Rejected("save failed")
        ELSE IF ~validateIdl(parsed.value).valid
        THEN Rejected(validateIdl(parsed.value).error)
        ELSE IF \E i \in 1..Len(programIds) : ~isValidSolanaAddress(programIds[i])
        THEN Rejected("invalid address")
        ELSE IF Len(programIds) = 0 THEN Rejected("no program address")
        ELSE IF detectIdlVersion(parsed.value).kind = "throw"
                \/ normalizeIdl(parsed.value).kind = "throw"
        THEN Rejected("save failed")
        ELSE LET version == detectIdlVersion(parsed.value).value
                 normalizedIdl == normalizeIdl(parsed.value).value
                 name == IF f.nameInput # "" THEN f.nameInput
                         ELSE getIdlName(parsed.value)
             IN  [saved |-> TRUE, error |-> Null,
                  configs |->
                    IF f.editingId \notin {Null, ""}
                    THEN UpdatedConfigs(configs, f.editingId, name,
                                        normalizedIdl, version, programIds)
                    ELSE Append(configs,
                                IdlConfig(ToString(now), name, normalizedIdl,
                                          version, programIds))]

\* Every operation takes its time: Date.now() has moved on at the next one.
Tick ==
    /\ clock < MaxClock
    /\ clock' = clock + 1

\* The button "+ add IDL", shown while the form is closed.
StartAdding ==
    /\ Tick
    /\ ~form.isAdding
    /\ form' = [form EXCEPT !.isAdding = TRUE]
    /\ UNCHANGED <<idlConfigs, scanVars, call, result, queryHistory>>

\* Typing into the form, shown while isAdding.
handleIdlInputChange ==
    /\ Tick
    /\ form.isAdding
    /\ \E value \in SchemaTexts : form' = IdlInputChanged(form, value)
    /\ UNCHANGED <<idlConfigs, scanVars, call, result, queryHistory>>

setNameInput ==
    /\ Tick
    /\ form.isAdding
    /\ \E value \in NameTexts : form' = [form EXCEPT !.nameInput = value]
    /\ UNCHANGED <<idlConfigs, scanVars, call, result, queryHistory>>

setProgramIdsInput ==
    /\ Tick
    /\ form.isAdding
    /\ \E value \in ProgramIdTexts : form' = [form EXCEPT !.programIdsInput = value]
    /\ UNCHANGED <<idlConfigs, scanVars, call, result, queryHistory>>

\* The save button of the form.
handleSave ==
    /\ Tick
    /\ form.isAdding
    /\ LET outcome == SaveOutcome(form, idlConfigs, clock')
       IN  IF outcome.saved
           THEN /\ idlConfigs' = outcome.configs
                /\ form' = NoForm
           ELSE /\ idlConfigs' = idlConfigs
                /\ form' = [form EXCEPT !.error = outcome.error]
    /\ UNCHANGED <<scanVars, call, result, queryHistory>>

\* The cancel button of the form.
resetForm ==
    /\ Tick
    /\ form.isAdding
    /\ form' = NoForm
    /\ UNCHANGED <<idlConfigs, scanVars, call, result, queryHistory>>

\* The edit button of a listed config; the list is shown while the form is
\* closed.
handleEdit ==
    /\ Tick
    /\ ~form.isAdding
    /\ \E k \in 1..Len(idlConfigs) :
         LET config == idlConfigs[k]
         IN  form' = [form EXCEPT
                        !.editingId = config.id,
                        !.idlInput = JSONStringify(config.idl),
                        !.nameInput = config.name,
                        !.programIdsInput = Join(config.programIds),
                        !.detectedVersion =
                            IF config.originalVersion = "legacy"
                            THEN "legacy" ELSE "modern",
                        !.isAdding = TRUE]
    /\ UNCHANGED <<idlConfigs, scanVars, call, result, queryHistory>>

\* The delete button of a listed config, confirmed.
handleDelete ==
    /\ Tick
    /\ ~form.isAdding
    /\ \E k \in 1..Len(idlConfigs) :
         LET Other(c) == c.id # idlConfigs[k].id
         IN  idlConfigs' = SelectSeq(idlConfigs, Other)
    /\ UNCHANGED <<scanVars, call, result, queryHistory, form>>

\* The configs handleImport hands to onIdlConfigsChange.
ImportedConfigs(configs, imported, mode) ==
    IF mode = "replace" THEN imported
    ELSE LET existingIds == {configs[k].id : k \in 1..Len(configs)}
             New(c) == c.id \notin existingIds
         IN  configs \o SelectSeq(imported, New)

\* handleImport with the idlConfigs option set, on a file that has configs.
handleImport ==
    /\ Tick
    /\ \E imported \in ImportFiles, mode \in {"merge", "replace"} :
         idlConfigs' = ImportedConfigs(idlConfigs, imported, mode)
    /\ UNCHANGED <<scanVars, call, result, queryHistory, form>>

\* The registry of a fresh installation, the form closed.
InitRegistry ==
    /\ idlConfigs = <<>>
    /\ logs = <<>>
    /\ currentProgramId = Null
    /\ instructionIndex = 0
    /\ programStack = <<>>
    /\ events = <<>>
    /\ call = NoCall
    /\ result = NoResult
    /\ AppIdle

NextRegistry ==
    \/ StartAdding
    \/ handleIdlInputChange
    \/ setNameInput
    \/ setProgramIdsInput
    \/ handleSave
    \/ resetForm
    \/ handleEdit
    \/ handleDelete
    \/ handleImport

SpecRegistry == InitRegistry /\ [][NextRegistry]_vars

\* ---------------------------------------------- properties of the log extractor

\* The invocation stack after the lines of `lines`, by the rules of the
\* extractor: an invoke line pushes, a completion line pops.
RECURSIVE StackAfter(_)
StackAfter(lines) ==
    IF lines = <<>> THEN <<>>
    ELSE LET before == StackAfter(SubSeq(lines, 1, Len(lines) - 1))
             last   == lines[Len(lines)]
         IN  IF last.kind = "invoke" THEN Append(before, last.addr)
             ELSE IF last.kind \in {"success", "failed"} /\ before # <<>>
             THEN SubSeq(before, 1, Len(before) - 1)
             ELSE before

\* Line i of logs is a data line with a payload, read with a non-empty stack.
IsAttributed(i) ==
    /\ logs[i].kind = "data"
    /\ logs[i].text # <<>>
    /\ StackAfter(SubSeq(logs, 1, i - 1)) # <<>>

\* The payloads of the attributed data lines of the first n lines, in order.
RECURSIVE AttributedPayloads(_)
AttributedPayloads(n) ==
    IF n = 0 THEN <<>>
    ELSE AttributedPayloads(n - 1)
         \o (IF IsAttributed(n) THEN <<logs[n].text>> ELSE <<>>)

\* Completion lines among the first n lines that say success and leave the
\* stack empty.
RECURSIVE TopLevelSuccesses(_)
TopLevelSuccesses(n) ==
    IF n = 0 THEN 0
    ELSE TopLevelSuccesses(n - 1)
         + (IF logs[n].kind = "success" /\ StackAfter(SubSeq(logs, 1, n)) = <<>>
            THEN 1 ELSE 0)

\* The line read by the step that has just been taken.
LastLine == logs[Len(logs)]

\* C1: the events are, in order, one per data line read while the invocation
\* stack is non-empty; a data line read on an empty stack gives no event.
C1_OneEventPerAttributedDataLine ==
    [k \in 1..Len(events) |-> events[k].rawData] = AttributedPayloads(Len(logs))

\* C1 witness: a data line dropped on the empty stack, then one attributed.
C1_Witness ==
    /\ Len(logs) = 3
    /\ logs[1].kind = "data" /\ logs[1].text # <<>>
    /\ logs[2].kind = "invoke"
    /\ logs[3].kind = "data" /\ logs[3].text # <<>>
    /\ Len(events) = 1

\* C2: an invoke line pushes its address, and an event pushed by a step has
\* the address that was on top of the stack when its data line was read.
C2_EventProgramIsStackTop ==
    [][ logs' # logs =>
          /\ logs'[Len(logs')].kind = "invoke" =>
                programStack' = Append(programStack, logs'[Len(logs')].addr)
          /\ events' # events =>
                /\ programStack # <<>>
                /\ events' = Append(events, events'[Len(events')])
                /\ events'[Len(events')].programId = programStack[Len(programStack)]
      ]_vars

\* C2 witness: an event inside a nested invocation, then, after the nested
\* invocation completed, an event of the enclosing program.
C2_Witness ==
    /\ Len(logs) = 5
    /\ logs[1] = InvokeLine("Aaa") /\ logs[2] = InvokeLine("Bbb")
    /\ logs[3].kind = "data" /\ logs[4] = CompleteLine("Bbb", "success")
    /\ logs[5].kind = "data"
    /\ Len(events) = 2
    /\ events[1].programId = "Bbb" /\ events[2].programId = "Aaa"

\* C3: the counter is the number of success lines that left the stack empty
\* (0 at the start; a failed completion pops and does not count), a completion
\* line pops, and every event carries the counter as it was at its line.
C3_CounterCountsTopLevelSuccess ==
    /\ instructionIndex = TopLevelSuccesses(Len(logs))
    /\ programStack = StackAfter(logs)
    /\ (logs # <<>> /\ IsAttributed(Len(logs))) =>
          events[Len(events)].instructionIndex = TopLevelSuccesses(Len(logs) - 1)

\* C3 witness: the outermost invocation failed, and the event of the next
\* top-level instruction carries the index of the failed one.
C3_Witness ==
    /\ Len(logs) = 5
    /\ logs[1].kind = "invoke" /\ logs[2].kind = "data"
    /\ logs[3].kind = "failed" /\ logs[4].kind = "invoke"
    /\ logs[5].kind = "data"
    /\ Len(events) = 2
    /\ events[1].instructionIndex = 0 /\ events[2].instructionIndex = 0

\* The four classes of an event, by its fields.
IsDecoded(e) == e.name # Null /\ e.data # None /\ e.decodeError = None
IsMatchedUndecoded(e) == e.name # Null /\ e.data = None /\ e.decodeError # None
IsUnmatched(e) == e.name = Null /\ e.data = None /\ e.decodeError # None
IsUnbound(e) == e.name = Null /\ e.data = None /\ e.decodeError = None

\* The indices of the definitions of defs whose discriminator is the byte
\* string disc.
DefsWith(defs, disc) ==
    {i \in 1..Len(defs) : defs[i].discriminator = Some(disc)}

\* The name of the first event definition of idl whose discriminator is disc,
\* Null when there is none.
EventNamed(idl, disc) ==
    IF idl.events = None \/ DefsWith(idl.events[1], disc) = {} THEN Null
    ELSE idl.events[1][First(DefsWith(idl.events[1], disc))].name

\* The name of the event definition, of the schema bound to e's program, whose
\* discriminator heads e's payload; Null when there is none.
MatchedEventName(e) ==
    LET cfg == findIdlByProgramId(e.programId, idlConfigs)
    IN  IF cfg = None THEN Null
        ELSE EventNamed(cfg[1].idl, Slice(Base64Decode(e.rawData), 0, 8))

\* C4: every event is of one of the four classes, the class being the one
\* its program's binding and its discriminator call for; it is no CPI event
\* and carries the counter of its line.  The lines [invoke Aaa, data of
\* event X, Aaa success] give one event named X with index 0.
C4_EventClasses ==
    /\ \A k \in 1..Len(events) :
         LET e == events[k]
             bound == findIdlByProgramId(e.programId, idlConfigs) # None
         IN  /\ IsDecoded(e) \/ IsMatchedUndecoded(e) \/ IsUnmatched(e) \/ IsUnbound(e)
             /\ IsUnbound(e) <=> ~bound
             /\ IsUnmatched(e) <=> (bound /\ MatchedEventName(e) = Null)
             /\ (IsDecoded(e) \/ IsMatchedUndecoded(e)) =>
                    e.name = MatchedEventName(e)
             /\ e.isCpi = FALSE
    /\ (logs # <<>> /\ IsAttributed(Len(logs))) =>
          events[Len(events)].instructionIndex = instructionIndex
    /\ logs = <<InvokeLine("Aaa"), DataLine(Base64Encode(EventXBytes)),
                CompleteLine("Aaa", "success")>> =>
          /\ Len(events) = 1
          /\ events[1].name = "X"
          /\ events[1].instructionIndex = 0
          /\ events[1].isCpi = FALSE

\* C4 witness: the three lines have been read and X was decoded.
C4_Witness ==
    /\ logs = <<InvokeLine("Aaa"), DataLine(Base64Encode(EventXBytes)),
                CompleteLine("Aaa", "success")>>
    /\ Len(events) = 1
    /\ IsDecoded(events[1])
    /\ events[1].data = Some(<<7, 1>>)

\* ---------------------------------------------------- properties of the CPI probe

\* The bytes of the payload of the call, when its text is base58.
CallBytes == Bs58Decode(call.data)

\* No config of the registry lists the address of the call.
CallUnbound ==
    \A i \in 1..Len(idlConfigs) : ~Includes(idlConfigs[i].programIds, call.programId)

\* C5: tryDecodeCpiEvent returns "not an event" for every payload of fewer
\* than 16 bytes, whatever the registry binds to the address.
C5_ShortPayloadIsNotAnEvent ==
    (call.fn = "tryDecodeCpiEvent" /\ Bs58Valid(call.data) /\ Len(CallBytes) < 16)
        => result = None

\* C5 witness: a payload of 9 bytes whose byte at offset 8 is the whole
\* discriminator of an event of the bound schema, probed and rejected.
C5_Witness ==
    /\ call.fn = "tryDecodeCpiEvent"
    /\ call.programId = "Fff" /\ idlConfigs = Registry
    /\ call.data = Bs58Encode(EventIxTag \o <<7>>)
    /\ result = None

\* The conditions under which the probe answers: the text is base58, the
\* payload has 16 bytes, a schema is resolved, it declares an event, and an
\* event's discriminator is the 8 bytes at offset 8.
CpiAnswers ==
    /\ Bs58Valid(call.data)
    /\ Len(CallBytes) >= 16
    /\ findIdlByProgramId(call.programId, idlConfigs) # None
    /\ LET idl == findIdlByProgramId(call.programId, idlConfigs)[1].idl
       IN  /\ idl.events # None
           /\ Len(idl.events[1]) >= 1
           /\ DefsWith(idl.events[1], SubSeq(CallBytes, 9, 16)) # {}

\* C6: tryDecodeCpiEvent returns a result exactly when all of these hold, and
\* "not an event" in every other case.
C6_ProbeAnswersIffEventMatches ==
    call.fn = "tryDecodeCpiEvent" => (result # None <=> CpiAnswers)

\* C6 witness: a payload of 16 bytes and more, bound schema, no event of it
\* matching: not an event; the registry does bind an event-declaring schema.
C6_Witness ==
    /\ call.fn = "tryDecodeCpiEvent"
    /\ call.programId = "Aaa" /\ idlConfigs = Registry
    /\ call.data = Bs58Encode(EventIxTag \o Disc(9) \o <<1>>)
    /\ result = None

\* C7: a result of the probe carries what the decode of the bytes from offset
\* 8 gave: the decoded name and data and no diagnostic when it succeeded, the
\* matched event's name, no data and a diagnostic naming it when it failed.
\* Its name is never null.
C7_ProbeResultShape ==
    (call.fn = "tryDecodeCpiEvent" /\ result # None) =>
        LET idl     == findIdlByProgramId(call.programId, idlConfigs)[1].idl
            region  == SubSeq(CallBytes, 9, Len(CallBytes))
            matched == EventNamed(idl, SubSeq(region, 1, 8))
            decoded == CoderEventsDecode(idl, Base64Encode(region))
            r       == result[1]
        IN  /\ r.name # Null
            /\ decoded.kind = "ok" =>
                 /\ r.name = decoded.name
                 /\ r.name = matched
                 /\ r.data = Some(decoded.data)
                 /\ r.decodeError = None
            /\ decoded.kind # "ok" =>
                 /\ r.name = matched
                 /\ r.data = None
                 /\ r.decodeError # None
                 /\ r.decodeError[1].name = matched

\* C7 witness: event X decoded from behind the instruction discriminator.
C7_Witness ==
    /\ call.fn = "tryDecodeCpiEvent"
    /\ call.programId = "Aaa" /\ idlConfigs = Registry
    /\ call.data = Bs58Encode(EventIxTag \o Disc(3) \o <<7, 1>>)
    /\ result = Some([name |-> "X", data |-> Some(<<7, 1>>), decodeError |-> None])

\* ------------------------------------------- properties of the instruction decoder

\* C8: decodeInstructionData on an address no config lists returns hasIdl
\* false, name null, data null and no diagnostic, for every base58 payload.
C8_UnboundAddress ==
    (call.fn = "decodeInstructionData" /\ Bs58Valid(call.data) /\ CallUnbound)
        => /\ result.hasIdl = FALSE
           /\ result.name = Null
           /\ result.data = None
           /\ result.decodeError = None

\* C8 witness: a payload that schema alpha would decode, sent to an address
\* that a registry holding alpha does not list.
C8_Witness ==
    /\ call.fn = "decodeInstructionData"
    /\ call.programId = "Bbb" /\ idlConfigs = Registry
    /\ call.data = Bs58Encode(Disc(1) \o <<5, 1, 2>>)
    /\ result.hasIdl = FALSE

\* C9: a text that is not base58 gives hasIdl false, name null, data null and
\* the encoding diagnostic, also when a schema is bound to the address.
C9_EncodingCheckedFirst ==
    (call.fn = "decodeInstructionData"
       /\ \E i \in 1..Len(call.data) : call.data[i] \notin 0..57)
        => /\ result.hasIdl = FALSE
           /\ result.name = Null
           /\ result.data = None
           /\ result.decodeError # None
           /\ result.decodeError[1].text = "Base58 decode failed"

\* C9 witness: a text with a foreign character, for an address bound to alpha.
C9_Witness ==
    /\ call.fn = "decodeInstructionData"
    /\ call.programId = "Aaa" /\ idlConfigs = Registry
    /\ call.data = Bs58Encode(Disc(1) \o <<5, 1, 2>>) \o <<58>>
    /\ result.decodeError # None

\* Bytes the arguments of an instruction definition take.
RECURSIVE ArgsSize(_)
ArgsSize(args) ==
    IF args = <<>> THEN 0 ELSE FieldSize(Head(args)) + ArgsSize(Tail(args))

\* A partial match: the payload is base58, a schema is resolved, its first 8
\* bytes are the discriminator of an instruction definition, and the decode
\* did not succeed.
PartialMatch ==
    /\ call.fn = "decodeInstructionData"
    /\ Bs58Valid(call.data)
    /\ findIdlByProgramId(call.programId, idlConfigs) # None
    /\ LET idl == findIdlByProgramId(call.programId, idlConfigs)[1].idl
       IN  /\ DefsWith(idl.instructions, Slice(CallBytes, 0, 8)) # {}
           /\ CoderInstructionDecode(idl, CallBytes).kind # "ok"

\* The instruction definition the payload's discriminator selects.
MatchedIx ==
    LET idl == findIdlByProgramId(call.programId, idlConfigs)[1].idl
    IN  idl.instructions[First(DefsWith(idl.instructions, Slice(CallBytes, 0, 8)))]

\* C10: on a matched discriminator and a failed decode the result
\* names the instruction, has no data, hasIdl true and a diagnostic naming the
\* instruction; when the bytes behind the discriminator are too few for the
\* arguments, the diagnostic is the one about insufficient length.
C10_PartialMatchReportsShortData ==
    PartialMatch =>
        /\ result.name = MatchedIx.name
        /\ result.data = None
        /\ result.hasIdl = TRUE
        /\ result.decodeError # None
        /\ result.decodeError[1].name = MatchedIx.name
        /\ Len(CallBytes) - 8 < ArgsSize(MatchedIx.args) =>
               result.decodeError[1].text = "data too short"

\* The part of C10 that does not depend on the wording of the coder's Error.
C10_PartialMatchNamesInstruction ==
    PartialMatch =>
        /\ result.name = MatchedIx.name
        /\ result.data = None
        /\ result.hasIdl = TRUE
        /\ result.decodeError # None
        /\ result.decodeError[1].name = MatchedIx.name

\* The first n definitions of defs that carry a discriminator, as "name: hex"
\* pairs in declaration order.
RECURSIVE KnownInstructions(_, _)
KnownInstructions(defs, n) ==
    IF defs = <<>> \/ n = 0 THEN <<>>
    ELSE IF Head(defs).discriminator = None
         THEN KnownInstructions(Tail(defs), n)
         ELSE <<[name |-> Head(defs).name,
                 hex |-> ToHex(Head(defs).discriminator[1])]>>
              \o KnownInstructions(Tail(defs), n - 1)

\* The config the address of the call resolves to.
CallConfig == findIdlByProgramId(call.programId, idlConfigs)[1]

\* A failure on an unknown discriminator: the payload is base58, a schema is
\* bound, the decode did not succeed, and no instruction definition of the
\* schema has the first 8 bytes as its discriminator.
UnmatchedFailure ==
    /\ call.fn = "decodeInstructionData"
    /\ Bs58Valid(call.data)
    /\ ~CallUnbound
    /\ CoderInstructionDecode(CallConfig.idl, CallBytes).kind # "ok"
    /\ DefsWith(CallConfig.idl.instructions, Slice(CallBytes, 0, 8)) = {}

\* The mismatch diagnostic: discriminator in hex, schema name, and the first
\* five instructions that carry a discriminator.
IsMismatchDiagnostic(e) ==
    /\ e.text = "discriminator mismatch"
    /\ e.discriminatorHex = ToHex(Slice(CallBytes, 0, 8))
    /\ e.idlName = CallConfig.name
    /\ e.idlInfo.known = KnownInstructions(CallConfig.idl.instructions, 5)
    /\ Len(e.idlInfo.known) <= 5

\* C11: on every failure with a discriminator no instruction definition has,
\* whether the coder returned null or raised, the result has name null, data
\* null, hasIdl true and the mismatch diagnostic.
C11_UnmatchedFailureDiagnostic ==
    UnmatchedFailure =>
        /\ result.name = Null
        /\ result.data = None
        /\ result.hasIdl = TRUE
        /\ result.decodeError # None
        /\ IsMismatchDiagnostic(result.decodeError[1])

\* The part of C11 that holds: name, data and hasIdl on every failure path,
\* and the mismatch diagnostic when the coder returned null or raised an Error
\* whose text mentions the discriminator.
C11_MismatchWhenNullOrNamed ==
    UnmatchedFailure =>
        /\ result.name = Null
        /\ result.data = None
        /\ result.hasIdl = TRUE
        /\ result.decodeError # None
        /\ (\/ CoderInstructionDecode(CallConfig.idl, CallBytes).kind = "null"
            \/ "discriminator" \in call.errorMsg)
              => IsMismatchDiagnostic(result.decodeError[1])

\* The coder returned null on a schema of seven instructions: five listed.
C11_ListCapped ==
    /\ UnmatchedFailure
    /\ call.programId = "Ggg"
    /\ Len(result.decodeError[1].idlInfo.known) = 5
    /\ result.decodeError[1].idlInfo.total = 7

\* The coder raised on schema eta: the definition without a discriminator is
\* skipped, the list is e1, e2, e4, e5, e6.
C11_ListSkipsUndiscriminated ==
    /\ UnmatchedFailure
    /\ call.programId = "Hhh"
    /\ "discriminator" \in call.errorMsg
    /\ [i \in 1..5 |-> result.decodeError[1].idlInfo.known[i].name]
         = <<"e1", "e2", "e4", "e5", "e6">>

\* ------------------------------------------------ properties of parseInstruction

\* The role list the result's instruction name selects in the bound schema:
\* empty when the result names no instruction of a bound schema or the
\* definition has no role list.
ResultRoles ==
    IF ~result.hasIdl \/ result.name = Null THEN <<>>
    ELSE LET defs == CallConfig.idl.instructions
             hits == {k \in 1..Len(defs) : defs[k].name = result.name}
         IN  IF hits = {} \/ defs[First(hits)].accounts = None THEN <<>>
             ELSE defs[First(hits)].accounts[1]

\* The role an entry of a role list gives: its name, and each flag true only
\* when the entry's flag is the boolean true.
RoleOf(entry) ==
    LET keys == entry.object
    IN  [name |-> IF "name" \in DOMAIN keys THEN keys.name.string ELSE Null,
         isSigner |-> IF "signer" \in DOMAIN keys
                      THEN keys.signer = [boolean |-> TRUE] ELSE FALSE,
         isWritable |-> IF "writable" \in DOMAIN keys
                        THEN keys.writable = [boolean |-> TRUE] ELSE FALSE]

\* C12: on the instruction path parseInstruction gives one account per entry
\* of the account-index list, in order; the account at position i has the
\* address accountKeys[index] and the role of the entry at position i of the
\* matched definition's role list, no role from the end of the role list on;
\* a nested group is one entry and gives its own name and no flag.
C12_RolesByPosition ==
    (call.fn = "parseInstruction" /\ ~result.isEvent) =>
        /\ Len(result.accounts) = Len(call.args.accountIndexes)
        /\ \A i \in 1..Len(result.accounts) :
             LET index == call.args.accountIndexes[i]
                 acc   == result.accounts[i]
             IN  /\ index < Len(call.args.accountKeys) =>
                        acc.pubkey = call.args.accountKeys[index + 1]
                 /\ i <= Len(ResultRoles) =>
                        acc.role = Some(RoleOf(ResultRoles[i]))
                 /\ i > Len(ResultRoles) => acc.role = None

\* C12 witness: `initialize` with six accounts against a role list of five:
\* the group takes the second position under its own name, the entry behind
\* it the third, the flag 1 is not true, and the sixth account has no role.
C12_Witness ==
    /\ call.fn = "parseInstruction"
    /\ call.programId = "Aaa" /\ idlConfigs = Registry
    /\ call.data = Bs58Encode(Disc(1) \o <<5, 1, 2>>)
    /\ call.args.accountIndexes = <<2, 0, 1, 3, 0, 1>>
    /\ ~result.isEvent
    /\ result.name = "initialize"
    /\ result.accounts[1].pubkey = "K3"
    /\ result.accounts[1].role =
          Some([name |-> "payer", isSigner |-> TRUE, isWritable |-> TRUE])
    /\ result.accounts[2].role =
          Some([name |-> "pools", isSigner |-> FALSE, isWritable |-> FALSE])
    /\ result.accounts[3].role =
          Some([name |-> "state", isSigner |-> FALSE, isWritable |-> TRUE])
    /\ result.accounts[4].role =
          Some([name |-> "odd", isSigner |-> FALSE, isWritable |-> FALSE])
    /\ result.accounts[5].role =
          Some([name |-> Null, isSigner |-> FALSE, isWritable |-> TRUE])
    /\ result.accounts[6].role = None

\* ---------------------------------------------- properties of the account decoder

\* The account types of the bound schema that decode the bytes of the call,
\* by position; none when the coder cannot be built or the schema declares
\* no account type.
DecodingTypes ==
    LET idl == CallConfig.idl
    IN  IF "accounts" \notin DOMAIN idl
           \/ \E k \in 1..Len(idl.accounts) : idl.accounts[k].fields = None
        THEN {}
        ELSE {k \in 1..Len(idl.accounts) :
                LET d == idl.accounts[k]
                IN  /\ Len(call.data) >= Len(d.discriminator)
                    /\ SubSeq(call.data, 1, Len(d.discriminator)) = d.discriminator
                    /\ LayoutDecode(d.fields[1],
                                    SubSeq(call.data, Len(d.discriminator) + 1,
                                           Len(call.data))).ok}

\* C13: decodeAccountData returns null / null for an unbound owner and when
\* no account type decodes, else the name and the data of the first account
\* type, in declaration order, that decodes; it always returns.
C13_FirstDecodingAccountType ==
    call.fn = "decodeAccountData" =>
        IF CallUnbound \/ DecodingTypes = {}
        THEN result = [accountType |-> Null, data |-> None]
        ELSE LET d == CallConfig.idl.accounts[First(DecodingTypes)]
             IN  /\ result.accountType = d.name
                 /\ result.data =
                      Some(LayoutDecode(d.fields[1],
                                        SubSeq(call.data, Len(d.discriminator) + 1,
                                               Len(call.data))).data)

\* C13 witness: bytes that both P and Q decode are returned as P.
C13_Witness ==
    /\ call.fn = "decodeAccountData"
    /\ call.programId = "Iii"
    /\ findIdlByProgramId(call.programId, idlConfigs) # None
    /\ call.data = <<1, 2>>
    /\ Cardinality(DecodingTypes) = 2
    /\ result = [accountType |-> "P", data |-> Some(<<2>>)]

\* ------------------------------------------------- properties of the resolver

\* The first config of the list, in list order, whose addresses contain
\* address; None when there is none.
RECURSIVE FirstBinding(_, _)
FirstBinding(address, configs) ==
    IF configs = <<>> THEN None
    ELSE IF \E i \in 1..Len(Head(configs).programIds) :
                Head(configs).programIds[i] = address
         THEN Some(Head(configs))
         ELSE FirstBinding(address, Tail(configs))

\* The registry that leaves each address to its first binding alone: every
\* config without the addresses an earlier config already lists.
FirstBindingsOnly(configs) ==
    [k \in 1..Len(configs) |->
        LET Fresh(a) == FirstBinding(a, SubSeq(configs, 1, k - 1)) = None
        IN  [configs[k] EXCEPT !.programIds = SelectSeq(@, Fresh)]]

\* C14: findIdlByProgramId gives the first binding that contains the address,
\* nothing when none does, also when several contain it; and each of the
\* instruction decoder, account decoder, CPI probe and log extractor returns
\* what it returns when every address is left to its first binding alone.
C14_FirstBindingEverywhere ==
    /\ \A address \in ProgramIds :
          findIdlByProgramId(address, idlConfigs) = FirstBinding(address, idlConfigs)
    /\ call.fn = "decodeInstructionData" =>
          result = decodeInstructionData(call.programId, call.data,
                                         FirstBindingsOnly(idlConfigs), call.errorMsg)
    /\ call.fn = "decodeAccountData" =>
          result = decodeAccountData(call.programId, call.data,
                                     FirstBindingsOnly(idlConfigs))
    /\ call.fn = "tryDecodeCpiEvent" =>
          result = tryDecodeCpiEvent(call.programId, call.data,
                                     FirstBindingsOnly(idlConfigs))
    /\ call.fn = "parseEventsFromLogs" =>
          result = parseEventsFromLogs(call.args.logs, FirstBindingsOnly(idlConfigs))

\* C14 witness: "Aaa" is listed by beta and then by alpha; the log extractor
\* reads its event X with beta, whose coder raises, where alpha would have
\* decoded it.
C14_Witness ==
    /\ call.fn = "parseEventsFromLogs"
    /\ idlConfigs = <<CfgBeta, CfgAlpha, CfgGamma>>
    /\ FirstBindingsOnly(idlConfigs)[2].programIds = <<>>
    /\ Len(call.args.logs) = 3
    /\ Len(result) = 1
    /\ result[1].programId = "Aaa"
    /\ result[1].name = "X"
    /\ result[1].data = None
    /\ parseEventsFromLogs(call.args.logs, <<CfgAlpha>>)[1].data = Some(<<7, 1>>)

\* The extractor's loop, line by line, gives the events of the whole call.
ScanAgreesWithWholeCall ==
    parseEventsFromLogs(logs, idlConfigs) = events

\* ----------------------------------------------- properties of the normalizer

\* Some entry of the list, or of a group of the list at any depth, has the
\* key isMut or isSigner.
RECURSIVE HasLegacyKey(_)
HasLegacyKey(entries) ==
    \E i \in 1..Len(entries) :
        /\ DOMAIN entries[i] = {"object"}
        /\ LET keys == entries[i].object
           IN  \/ "isMut" \in DOMAIN keys
               \/ "isSigner" \in DOMAIN keys
               \/ /\ "accounts" \in DOMAIN keys
                  /\ HasLegacyKey(keys.accounts.array)

\* The raw value of the call is an object whose instructions are objects and
\* whose account lists hold objects only.
RECURSIVE AllObjects(_)
AllObjects(entries) ==
    \A i \in 1..Len(entries) :
        /\ DOMAIN entries[i] = {"object"}
        /\ "accounts" \in DOMAIN entries[i].object =>
               AllObjects(entries[i].object.accounts.array)

\* The instructions of the raw value of the call, <<>> when it has no
\* instruction array.
CallInstructions ==
    LET idl == call.args.idl
    IN  IF DOMAIN idl = {"object"} /\ "instructions" \in DOMAIN idl.object
           /\ DOMAIN idl.object.instructions = {"array"}
        THEN idl.object.instructions.array ELSE <<>>

\* The account list of an instruction, <<>> when it has none.
AccountsOf(ix) ==
    IF "accounts" \in DOMAIN ix.object THEN ix.object.accounts.array ELSE <<>>

WellFormedCall ==
    /\ DOMAIN call.args.idl = {"object"}
    /\ \A i \in 1..Len(CallInstructions) : AllObjects(AccountsOf(CallInstructions[i]))

\* Some instruction of the call has a legacy key in its account-role tree.
CallHasLegacyKey ==
    \E i \in 1..Len(CallInstructions) : HasLegacyKey(AccountsOf(CallInstructions[i]))

\* C15: normalizeIdl is idempotent: normalizing what it returned returns the
\* same value again.
C15_NormalizeIdempotent ==
    (call.fn = "normalizeIdl" /\ result.kind = "ok") =>
        normalizeIdl(result.value) = result

\* C15 witness: a schema mixing both flag conventions, with a nested group,
\* was rewritten.
C15_Witness ==
    /\ call.fn = "normalizeIdl"
    /\ CallInstructions = <<RawIx(<<Mixed, ModernBoth>>), RawIx(<<GroupDeep>>)>>
    /\ result.kind = "ok"
    /\ result.value # call.args.idl

\* C16: detectIdlVersion returns legacy exactly when some account-role entry
\* of some instruction, at any depth, has the key isMut or isSigner, and
\* modern otherwise, also without instructions; it returns on every schema
\* whose entries are objects.
C16_LegacyIffLegacyKey ==
    call.fn = "detectIdlVersion" =>
        /\ WellFormedCall => result.kind = "ok"
        /\ result.kind = "ok" =>
              result.value = IF CallHasLegacyKey THEN "legacy" ELSE "modern"

\* C16 witness: the only legacy key is an isSigner: false two groups deep.
C16_Witness ==
    /\ call.fn = "detectIdlVersion"
    /\ CallInstructions = <<RawIx(<<GroupModern, ModernAddress>>), RawIx(<<GroupDeep>>)>>
    /\ result = [kind |-> "ok", value |-> "legacy"]

\* The role tree `after` has the shape of `before` and the flags the legacy
\* flags of `before` call for.
RECURSIVE RolesRewritten(_, _)
RolesRewritten(before, after) ==
    /\ Len(after) = Len(before)
    /\ \A i \in 1..Len(before) :
         LET a == before[i].object
             b == after[i].object
         IN  /\ b.name = a.name
             /\ "isMut" \notin DOMAIN b
             /\ "isSigner" \notin DOMAIN b
             /\ IF "accounts" \in DOMAIN a
                THEN /\ "accounts" \in DOMAIN b
                     /\ RolesRewritten(a.accounts.array, b.accounts.array)
                ELSE /\ "accounts" \notin DOMAIN b
                     /\ "writable" \in DOMAIN b <=>
                            ("isMut" \in DOMAIN a /\ a.isMut = [boolean |-> TRUE])
                     /\ "writable" \in DOMAIN b => b.writable = [boolean |-> TRUE]
                     /\ "signer" \in DOMAIN b <=>
                            ("isSigner" \in DOMAIN a /\ a.isSigner = [boolean |-> TRUE])
                     /\ "signer" \in DOMAIN b => b.signer = [boolean |-> TRUE]

\* normalizeIdl was called on a legacy schema and returned.
NormalizedLegacy ==
    /\ call.fn = "normalizeIdl"
    /\ CallHasLegacyKey
    /\ result.kind = "ok"

\* The instructions of the value normalizeIdl returned.
ResultInstructions == result.value.object.instructions.array

\* C17: the normalized role tree of every instruction of a legacy schema has
\* the names, order and nesting of the original; a leaf has writable: true
\* exactly when its isMut was true, signer: true exactly when its isSigner was
\* true, never an explicit false, and no isMut or isSigner key is left.
C17_LegacyFlagsRewritten ==
    NormalizedLegacy =>
        /\ Len(ResultInstructions) = Len(CallInstructions)
        /\ \A i \in 1..Len(CallInstructions) :
             RolesRewritten(AccountsOf(CallInstructions[i]),
                            AccountsOf(ResultInstructions[i]))

\* C17 witness: a group of legacy entries and leaves with each flag value.
C17_Witness ==
    /\ NormalizedLegacy
    /\ CallInstructions = <<RawIx(<<GroupLegacy, ModernBoth>>),
                            RawIx(<<LegacyMut, LegacyFull>>)>>
    /\ AccountsOf(ResultInstructions[1])[1].object.accounts.array[1]
         = [object |-> [name |-> [string |-> "a"], writable |-> [boolean |-> TRUE]]]
    /\ DOMAIN AccountsOf(ResultInstructions[2])[2].object
         = {"name", "signer", "optional", "docs", "pda"}

\* The keys that spell a role flag, in either convention.
RoleFlagKeys ==
    {"isMut", "isSigner", "isOptional", "writable", "signer", "optional"}

\* Every key of the entries of `before` that is no role flag, and is not the
\* member list of a group, is in the entry of `after` with the same value,
\* at every depth.
RECURSIVE OtherFieldsKept(_, _)
OtherFieldsKept(before, after) ==
    \A i \in 1..Len(before) :
        LET a == before[i].object
            b == after[i].object
        IN  /\ \A k \in DOMAIN a \ (RoleFlagKeys \cup {"accounts"}) :
                  k \in DOMAIN b /\ b[k] = a[k]
            /\ "accounts" \in DOMAIN a =>
                  OtherFieldsKept(a.accounts.array, b.accounts.array)

\* The fields of the schema other than the instruction list, and of each
\* instruction other than the account list, are as they were.
OuterFieldsKept ==
    /\ \A k \in DOMAIN call.args.idl.object \ {"instructions"} :
          k \in DOMAIN result.value.object
            /\ result.value.object[k] = call.args.idl.object[k]
    /\ DOMAIN result.value.object = DOMAIN call.args.idl.object
    /\ \A i \in 1..Len(CallInstructions) :
          /\ DOMAIN ResultInstructions[i].object = DOMAIN CallInstructions[i].object
          /\ \A k \in DOMAIN CallInstructions[i].object \ {"accounts"} :
                ResultInstructions[i].object[k] = CallInstructions[i].object[k]

\* C18: in the rewrite of a legacy schema every field of an entry or group
\* that is no role flag is unchanged, and so is every field of the schema and
\* of each instruction other than the account list.
C18_OtherFieldsUnchanged ==
    NormalizedLegacy =>
        /\ OuterFieldsKept
        /\ \A i \in 1..Len(CallInstructions) :
             OtherFieldsKept(AccountsOf(CallInstructions[i]),
                             AccountsOf(ResultInstructions[i]))

\* The fields the rewrite does keep: name, docs and pda of an entry that is no
\* group, the name of a group, at every depth.
RECURSIVE NamedFieldsKept(_, _)
NamedFieldsKept(before, after) ==
    \A i \in 1..Len(before) :
        LET a == before[i].object
            b == after[i].object
        IN  IF "accounts" \in DOMAIN a
            THEN /\ b.name = a.name
                 /\ NamedFieldsKept(a.accounts.array, b.accounts.array)
            ELSE \A k \in DOMAIN a \cap {"name", "docs", "pda"} :
                     k \in DOMAIN b /\ b[k] = a[k]

\* The part of C18 that holds: the schema's and the instructions' other
\* fields, and name, docs and pda of the entries.
C18_NamedFieldsUnchanged ==
    NormalizedLegacy =>
        /\ OuterFieldsKept
        /\ \A i \in 1..Len(CallInstructions) :
             NamedFieldsKept(AccountsOf(CallInstructions[i]),
                             AccountsOf(ResultInstructions[i]))

\* A documented group and an entry with `relations` went through the rewrite.
C18_Reached ==
    /\ NormalizedLegacy
    /\ CallInstructions = <<RawIx(<<LegacyRelations>>), RawIx(<<GroupDeep>>)>>
    /\ "relations" \notin DOMAIN AccountsOf(ResultInstructions[1])[1].object
    /\ "docs" \notin DOMAIN AccountsOf(ResultInstructions[2])[1].object

\* C19: normalizeIdl returns a schema that detectIdlVersion classifies as
\* modern as it is.
C19_ModernUnchanged ==
    (call.fn = "normalizeIdl"
       /\ detectIdlVersion(call.args.idl) = [kind |-> "ok", value |-> "modern"])
        => result = [kind |-> "ok", value |-> call.args.idl]

\* C19 witness: a modern schema with flags, a group and a field the rewrite
\* of a legacy schema would drop.
C19_Witness ==
    /\ call.fn = "normalizeIdl"
    /\ CallInstructions = <<RawIx(<<GroupModern, ModernAddress>>),
                            RawIx(<<ModernBoth, Plain>>)>>
    /\ result.kind = "ok"
    /\ result.value = call.args.idl

\* The raw value of the call has an instruction list.
CallHasInstructionList ==
    LET idl == call.args.idl
    IN  /\ "instructions" \in DOMAIN idl.object
        /\ DOMAIN idl.object.instructions = {"array"}

\* The raw value of the call has a top-level name, or a name in its metadata.
CallHasSomeName ==
    LET keys == call.args.idl.object
        Named(o) == "name" \in DOMAIN o /\ o.name \notin {[string |-> ""]}
    IN  \/ Named(keys)
        \/ /\ "metadata" \in DOMAIN keys
           /\ DOMAIN keys.metadata = {"object"}
           /\ Named(keys.metadata.object)

\* C20: validateIdl rejects a value that is no object, then one without an
\* instruction list, then one with neither a top-level name nor a metadata
\* name, each with the reason of the first failing test; it accepts the rest.
C20_ValidateRejections ==
    call.fn = "validateIdl" =>
        IF DOMAIN call.args.idl = {"array"} THEN ~result.valid
        ELSE IF DOMAIN call.args.idl # {"object"}
        THEN result = [valid |-> FALSE, error |-> "IDL must be an object"]
        ELSE IF ~CallHasInstructionList
        THEN result = [valid |-> FALSE, error |-> "IDL lacks instructions"]
        ELSE IF ~CallHasSomeName
        THEN result = [valid |-> FALSE, error |-> "IDL lacks name or metadata"]
        ELSE result = [valid |-> TRUE, error |-> Null]

\* The part of C20 that holds: the third test passes on a top-level name or
\* on a metadata field, named or not.
C20_ValidateAcceptsAnyMetadata ==
    call.fn = "validateIdl" =>
        IF DOMAIN call.args.idl = {"array"} THEN ~result.valid
        ELSE IF DOMAIN call.args.idl # {"object"}
        THEN result = [valid |-> FALSE, error |-> "IDL must be an object"]
        ELSE IF ~CallHasInstructionList
        THEN result = [valid |-> FALSE, error |-> "IDL lacks instructions"]
        ELSE IF ~CallHasSomeName /\ "metadata" \notin DOMAIN call.args.idl.object
        THEN result = [valid |-> FALSE, error |-> "IDL lacks name or metadata"]
        ELSE result = [valid |-> TRUE, error |-> Null]

\* A schema whose metadata has no name was validated and accepted.
C20_Reached ==
    /\ call.fn = "validateIdl"
    /\ call.args.idl = [object |-> [metadata |-> [object |-> <<>>],
                                     instructions |-> [array |-> <<>>]]]
    /\ result.valid

\* The raw value of the call passes validateIdl.
CallAccepted == validateIdl(call.args.idl).valid

\* C21: on every raw schema that validateIdl accepts, detectIdlVersion and
\* normalizeIdl return a value and do not raise.
C21_AcceptedNeverRaises ==
    (call.fn \in {"detectIdlVersion", "normalizeIdl"} /\ CallAccepted) =>
        result.kind = "ok"

\* Every instruction of the call has an account list.
EveryInstructionListsAccounts ==
    \A i \in 1..Len(CallInstructions) :
        "accounts" \in DOMAIN CallInstructions[i].object

\* The part of C21 that holds: on an accepted schema whose account-role
\* entries are objects detectIdlVersion returns, and normalizeIdl returns when
\* the schema is modern or every instruction has an account list.
C21_ReturnsOnListedAccounts ==
    (CallAccepted /\ WellFormedCall) =>
        /\ call.fn = "detectIdlVersion" => result.kind = "ok"
        /\ (call.fn = "normalizeIdl"
              /\ (EveryInstructionListsAccounts \/ ~CallHasLegacyKey))
             => result.kind = "ok"

\* An accepted schema with a legacy instruction and an instruction without
\* account list went into normalizeIdl, which raised.
C21_Reached ==
    /\ call.fn = "normalizeIdl"
    /\ CallAccepted
    /\ CallInstructions = <<RawIx(<<LegacyMut, LegacyFull>>), RawIxNoAccounts>>
    /\ result.kind = "throw"

\* ------------------------------------------- properties of completion lines

\* The step has read a completion line.
ReadsCompletion ==
    /\ logs' # logs
    /\ logs'[Len(logs')].kind \in {"success", "failed"}

\* C24: a completion line removes the top of the stack whatever address it
\* names; a success line read on the empty stack leaves the stack empty and
\* increments the counter; the instructionIndex values of the events never
\* decrease along the output.
C24_CompletionPopsWithoutComparing ==
    [][ /\ ReadsCompletion =>
            /\ programStack # <<>> =>
                  programStack = Append(programStack', programStack[Len(programStack)])
            /\ programStack = <<>> =>
                  /\ programStack' = <<>>
                  /\ logs'[Len(logs')].kind = "success" =>
                        instructionIndex' = instructionIndex + 1
        /\ Len(programStack') >= 0
        /\ \A i, j \in 1..Len(events') :
              i <= j => events'[i].instructionIndex <= events'[j].instructionIndex
      ]_vars

\* C24 witness: a success line naming another address popped the only entry
\* and counted, a success line read on the empty stack counted again, and the
\* event of the next invocation carries both counts.
C24_Witness ==
    /\ Len(logs) = 5
    /\ logs[1] = InvokeLine("Aaa")
    /\ logs[2] = CompleteLine("Bbb", "success")
    /\ logs[3] = CompleteLine("Aaa", "success")
    /\ logs[4] = InvokeLine("Aaa") /\ logs[5].kind = "data"
    /\ programStack = <<"Aaa">>
    /\ instructionIndex = 2
    /\ Len(events) = 1 /\ events[1].instructionIndex = 2

\* ------------------------------------------- properties of parseInstruction

\* What the CPI probe answers on the address and data of the call.
CallProbe == tryDecodeCpiEvent(call.programId, call.data, idlConfigs)

\* What decodeInstructionData answers on the address and data of the call.
CallDecoded ==
    decodeInstructionData(call.programId, call.data, idlConfigs, call.errorMsg)

\* C25: with tryParseAsEvent = true, a probe that answers makes the result an
\* event (isEvent and hasIdl true, name, data and decodeError of the probe,
\* accounts without role); a probe that answers "not an event" gives the
\* result of tryParseAsEvent = false.  With tryParseAsEvent = false the probe
\* is not consulted: isEvent is not set and the result is the ordinary decode.
C25_ProbeFirstWhenAsked ==
    call.fn = "parseInstruction" =>
        /\ (call.args.tryParseAsEvent /\ CallProbe # None) =>
              /\ result.isEvent /\ result.hasIdl
              /\ result.name = CallProbe[1].name
              /\ result.data = CallProbe[1].data
              /\ result.decodeError = CallProbe[1].decodeError
              /\ result.rawData = call.data
              /\ Len(result.accounts) = Len(call.args.accountIndexes)
              /\ \A i \in 1..Len(result.accounts) : result.accounts[i].role = None
        /\ (call.args.tryParseAsEvent /\ CallProbe = None) =>
              result = parseInstruction(call.programId, call.data,
                                        call.args.accountKeys,
                                        call.args.accountIndexes, idlConfigs,
                                        call.args.addressLabels, FALSE,
                                        call.errorMsg)
        /\ (~call.args.tryParseAsEvent \/ CallProbe = None) =>
              /\ ~result.isEvent
              /\ result.data = CallDecoded.data
              /\ result.decodeError = CallDecoded.decodeError
              /\ result.hasIdl = CallDecoded.hasIdl

\* C25 witness: an inner instruction carrying event X of schema alpha was
\* parsed with tryParseAsEvent = true and came back as that event, although
\* the ordinary decode finds no instruction in it.
C25_Witness ==
    /\ call.fn = "parseInstruction"
    /\ call.programId = "Aaa" /\ idlConfigs = Registry
    /\ call.data = Bs58Encode(EventIxTag \o Disc(3) \o <<7, 1>>)
    /\ call.args.tryParseAsEvent
    /\ call.args.accountIndexes = <<1, 0>>
    /\ result.isEvent /\ result.hasIdl
    /\ result.name = "X" /\ result.data = Some(<<7, 1>>)
    /\ result.accounts[1].role = None
    /\ CallDecoded.name = Null

\* C26: every result of decodeInstructionData is consistent: data is there
\* only with a name, hasIdl true and no decodeError; with hasIdl true and no
\* data there is a decodeError; with hasIdl false there is neither name nor
\* data; rawData is the input text on every path.
C26_ResultConsistent ==
    call.fn = "decodeInstructionData" =>
        /\ result.data # None =>
              (result.name # Null /\ result.hasIdl /\ result.decodeError = None)
        /\ (result.hasIdl /\ result.data = None) => result.decodeError # None
        /\ ~result.hasIdl => (result.name = Null /\ result.data = None)
        /\ result.rawData = call.data

\* C26 witness: an unmatched discriminator against a bound schema: hasIdl
\* true, neither name nor data, a diagnostic, and the input text as rawData.
C26_Witness ==
    /\ call.fn = "decodeInstructionData"
    /\ call.programId = "Aaa" /\ idlConfigs = Registry
    /\ call.data = Bs58Encode(Disc(9) \o <<0>>)
    /\ result.hasIdl
    /\ result.name = Null /\ result.data = None
    /\ result.decodeError # None
    /\ result.rawData = call.data

\* The role list of the instruction decodeInstructionData names in the schema
\* bound to the address of the call; empty when it names none or the
\* definition has no role list.
DecodedRoles ==
    LET bound == FirstBinding(call.programId, idlConfigs)
    IN  IF CallDecoded.name = Null \/ bound = None THEN <<>>
        ELSE LET defs == bound[1].idl.instructions
                 hits == {k \in 1..Len(defs) : defs[k].name = CallDecoded.name}
             IN  IF hits = {} \/ defs[First(hits)].accounts = None THEN <<>>
                 ELSE defs[First(hits)].accounts[1]

\* C27: on the instruction path the accounts get the roles of the instruction
\* the decode result names, also when the discriminator matched and the
\* arguments did not decode; when the decode result has no name, no account
\* gets a role.
C27_RolesFollowDecodedName ==
    (call.fn = "parseInstruction" /\ ~result.isEvent) =>
        /\ CallDecoded.name # Null =>
              \A i \in 1..Len(result.accounts) :
                  i <= Len(DecodedRoles) =>
                      result.accounts[i].role = Some(RoleOf(DecodedRoles[i]))
        /\ CallDecoded.name = Null =>
              \A i \in 1..Len(result.accounts) : result.accounts[i].role = None

\* C27 witness: `initialize` of schema alpha with its arguments cut short:
\* no data, a diagnostic, and the roles of `initialize` on the accounts.
C27_Witness ==
    /\ call.fn = "parseInstruction"
    /\ call.programId = "Aaa" /\ idlConfigs = Registry
    /\ call.data = Bs58Encode(Disc(1) \o <<5>>)
    /\ call.args.accountIndexes = <<1, 0>>
    /\ ~result.isEvent
    /\ result.name = "initialize"
    /\ result.data = None /\ result.decodeError # None
    /\ result.accounts[1].role =
          Some([name |-> "payer", isSigner |-> TRUE, isWritable |-> TRUE])
    /\ result.accounts[2].role =
          Some([name |-> "pools", isSigner |-> FALSE, isWritable |-> FALSE])

\* The well-known name of the address of the call, Null when it has none.
CallKnownName ==
    IF call.programId = "11111111111111111111111111111111"
    THEN "System Program" ELSE Null

\* C28: on the instruction path the result's name is the decoded instruction
\* name when there is one; else it is null when hasIdl is true; else the
\* display name of the bound schema, when a schema is bound and has one, else
\* the well-known name of the address, else null.  A schema is bound with
\* hasIdl false only after an encoding failure.
C28_NameFallback ==
    (call.fn = "parseInstruction" /\ ~result.isEvent) =>
        LET bound == FirstBinding(call.programId, idlConfigs)
        IN  /\ result.name =
                 IF CallDecoded.name # Null THEN CallDecoded.name
                 ELSE IF result.hasIdl THEN Null
                 ELSE IF bound # None /\ bound[1].name # "" THEN bound[1].name
                 ELSE CallKnownName
            /\ (bound # None /\ ~result.hasIdl) => ~Bs58Valid(call.data)
            /\ (result.hasIdl /\ CallDecoded.name = Null) => result.name = Null

\* C28 witness: a text that is no base58 for an address bound to schema
\* alpha: hasIdl false, and the schema's display name as the name.
C28_Witness ==
    /\ call.fn = "parseInstruction"
    /\ call.programId = "Aaa" /\ idlConfigs = Registry
    /\ call.data = <<58>>
    /\ ~result.isEvent /\ ~result.hasIdl
    /\ result.name = "alpha"
    /\ result.decodeError # None

\* A text that is no base58 for the System Program address, bound to a schema
\* saved without display name: the well-known name is the name.
C28_Reached ==
    /\ call.fn = "parseInstruction"
    /\ call.programId = "11111111111111111111111111111111"
    /\ FirstBinding(call.programId, idlConfigs) = Some(CfgLambda)
    /\ call.data = <<58>>
    /\ ~result.isEvent /\ ~result.hasIdl
    /\ result.name = "System Program"

\* --------------------------------------------- properties of the query history

\* No entry is in the list twice.
NoDuplicate(list) ==
    \A i, j \in 1..Len(list) : list[i] = list[j] => i = j

\* `after` is `before` with one entry added: the entry in front, behind it
\* the other entries of `before` in their order, cut at MAX_HISTORY entries.
AddedInFront(before, after) ==
    /\ after # <<>>
    /\ LET kept == {i \in 1..Len(before) : before[i] # after[1]}
           Rank(i) == Cardinality({j \in kept : j <= i})
       IN  /\ Len(after) = IF Cardinality(kept) + 1 > 20 THEN 20
                           ELSE Cardinality(kept) + 1
           /\ \A i \in kept : Rank(i) + 1 <= Len(after) => after[Rank(i) + 1] = before[i]

\* A step leaves the list alone, empties it, or adds one entry in front.
HistoryStep(before, after) ==
    after = before \/ after = <<>> \/ AddedInFront(before, after)

\* C30: each history list has no duplicate and at most 20 entries; a step
\* changes at most one of the lists, and changes it by emptying it or by
\* putting one entry in front of the others, which keep their order (a
\* re-added entry moves to the front).
C30_HistoryLists ==
    /\ [](/\ NoDuplicate(queryHistory.transactions)
          /\ NoDuplicate(queryHistory.accounts)
          /\ Len(queryHistory.transactions) <= 20
          /\ Len(queryHistory.accounts) <= 20)
    /\ [][ /\ HistoryStep(queryHistory.transactions, queryHistory'.transactions)
           /\ HistoryStep(queryHistory.accounts, queryHistory'.accounts)
           /\ \/ queryHistory'.transactions = queryHistory.transactions
              \/ queryHistory'.accounts = queryHistory.accounts
         ]_vars

\* C30 witness: on a full transaction list a new entry was added, then the
\* entry that fell out, then the entry that was in front at the start; the
\* account list is as it was stored.
C30_Witness ==
    /\ queryHistory.transactions = <<1, 20, 21>> \o [k \in 1..17 |-> k + 1]
    /\ queryHistory.accounts = [k \in 1..19 |-> k]

\* ------------------------------------------------- properties of the registry

\* The text is an address: 32 to 44 characters of the base58 alphabet.
AddressOk(address) ==
    /\ Len(address) \in 32..44
    /\ \A i \in 1..Len(address) : address[i] \in 0..57

\* The schema is one validateIdl accepts and normalizeIdl has nothing left to
\* rewrite in: an object with an instruction list, a name or metadata, and no
\* legacy key in any account-role tree.
SchemaValidatedAndNormalized(idl) ==
    /\ DOMAIN idl = {"object"}
    /\ "instructions" \in DOMAIN idl.object
    /\ DOMAIN idl.object.instructions = {"array"}
    /\ validateIdl(idl).valid
    /\ \A i \in 1..Len(idl.object.instructions.array) :
          ~HasLegacyKey(AccountsOf(idl.object.instructions.array[i]))

\* The binding holds a validated, normalized schema and at least one address,
\* every one of them well-formed.
BindingOk(config) ==
    /\ SchemaValidatedAndNormalized(config.idl)
    /\ Len(config.programIds) > 0
    /\ \A i \in 1..Len(config.programIds) : AddressOk(config.programIds[i])

\* C22: after any sequence of add, edit-and-save, delete and import, every
\* binding of the registry holds a schema that went through validate and
\* normalize and a non-empty list of well-formed addresses.
C22_EveryBindingValidated ==
    \A k \in 1..Len(idlConfigs) : BindingOk(idlConfigs[k])

\* The part of C22 that holds: every binding that the save of the form adds
\* or changes is validated, normalized and bound to well-formed addresses,
\* and a delete only removes bindings.
C22_SavedBindingsValidated ==
    [][ /\ handleSave =>
             \A k \in 1..Len(idlConfigs') :
                 \/ \E j \in 1..Len(idlConfigs) : idlConfigs'[k] = idlConfigs[j]
                 \/ BindingOk(idlConfigs'[k])
        /\ handleDelete =>
             \A k \in 1..Len(idlConfigs') :
                 \E j \in 1..Len(idlConfigs) : idlConfigs'[k] = idlConfigs[j]
      ]_vars

\* A hand-written file was imported: the registry has a binding with a legacy
\* schema and no address, and one with no schema and an ill-formed address.
C22_Reached ==
    /\ Len(idlConfigs) = 3
    /\ BindingOk(idlConfigs[1])
    /\ idlConfigs[1].id = "3"
    /\ idlConfigs[2].id = "h1" /\ idlConfigs[2].programIds = <<>>
    /\ HasLegacyKey(AccountsOf(idlConfigs[2].idl.object.instructions.array[1]))
    /\ idlConfigs[3].id = "h2" /\ ~validateIdl(idlConfigs[3].idl).valid
    /\ ~AddressOk(idlConfigs[3].programIds[1])

\* What normalizeIdl returns for the schema, if it returns, is classified
\* modern.
StaysModern(s) ==
    normalizeIdl(s).kind = "ok" =>
        detectIdlVersion(normalizeIdl(s).value) = [kind |-> "ok", value |-> "modern"]

\* normalizeIdl leaves nothing legacy, on every raw value of the normalizer's
\* calls and on every schema the registry's form is given.
NormalizedIsModern ==
    /\ \A s \in RawSchemas \cup OtherRawValues : StaysModern(s)
    /\ \A s \in {LegacySchema, ModernSchema, BareSchema} : StaysModern(s)

\* The position in the registry of the binding under edit, 0 when none has
\* the id.
EditedPosition ==
    IF \E k \in 1..Len(idlConfigs) : idlConfigs[k].id = form.editingId
    THEN CHOOSE k \in 1..Len(idlConfigs) : idlConfigs[k].id = form.editingId
    ELSE 0

\* The step saves the form (the registry changes or the form closes on it).
Saves == handleSave /\ form' = NoForm

\* The schema in the form has a legacy key.
FormSchemaIsLegacy ==
    /\ DOMAIN form.idlInput = {"json"}
    /\ \E i \in 1..Len(form.idlInput.json.object.instructions.array) :
          HasLegacyKey(AccountsOf(form.idlInput.json.object.instructions.array[i]))

\* C29: a schema that went through normalizeIdl is classified modern.  A save
\* in add mode appends a binding whose originalVersion is legacy exactly when
\* the pasted schema is; a save in edit mode of a stored, normalized schema
\* whose text was not changed sets originalVersion to modern and keeps the
\* binding's id and position, and every other binding.
C29_EditSaveTurnsModern ==
    /\ []NormalizedIsModern
    /\ [][ Saves =>
            /\ form.editingId = Null =>
                  /\ Len(idlConfigs') = Len(idlConfigs) + 1
                  /\ SubSeq(idlConfigs', 1, Len(idlConfigs)) = idlConfigs
                  /\ idlConfigs'[Len(idlConfigs')].originalVersion =
                        IF FormSchemaIsLegacy THEN "legacy" ELSE "modern"
            /\ (/\ form.editingId # Null
                /\ EditedPosition # 0
                /\ form.idlInput = JSONStringify(idlConfigs[EditedPosition].idl)
                /\ ~FormSchemaIsLegacy) =>
                  /\ Len(idlConfigs') = Len(idlConfigs)
                  /\ idlConfigs'[EditedPosition].originalVersion = "modern"
                  /\ idlConfigs'[EditedPosition].id = form.editingId
                  /\ \A k \in 1..Len(idlConfigs) :
                        idlConfigs[k].id # form.editingId =>
                            idlConfigs'[k] = idlConfigs[k]
         ]_vars

\* C29 witness: the legacy schema was pasted and saved at time 3, then
\* edited and saved as loaded: the binding has its id and place, the schema
\* as the edit form printed it, and originalVersion modern.
C29_Witness ==
    /\ Len(idlConfigs) = 1
    /\ idlConfigs[1].id = "3"
    /\ idlConfigs[1].name = "prog"
    /\ idlConfigs[1].idl = Stringified(normalizeIdl(LegacySchema).value)
    /\ idlConfigs[1].idl # normalizeIdl(LegacySchema).value
    /\ idlConfigs[1].originalVersion = "modern"
    /\ form = NoForm
    /\ clock = 5

====
